---- MODULE Spec2Model ----
(***************************************************************************)
(* A model of the in-memory TTL cache of services/cache_service.py:        *)
(* CacheEntry, SimpleCache (get, set, delete, clear, get_stats with their  *)
(* private helpers) and ContentCache.generate_content_key.                 *)
(*                                                                         *)
(* Conventions.                                                            *)
(*   - An Optional[x] of the Python code is a sequence of length <= 1:     *)
(*     None is << >> and a present value x is << x >>.                     *)
(*   - A Python dict is an insertion-ordered map.  It is modelled as a     *)
(*     sequence of items [key, entry] without duplicate keys: assigning to *)
(*     a stored key keeps its position, assigning to a new key appends,    *)
(*     del removes the item.  Iteration (items()) is the sequence order.   *)
(*   - datetime.now() is the variable now, a count of seconds; one call of *)
(*     a cache method reads one instant.  Tick lets time pass between the  *)
(*     calls.                                                              *)
(*   - Strings that the code only compares for equality or sorts           *)
(*     (keys, values, keywords, prompts) are small integers; the order of  *)
(*     the integers is the order Python gives the strings.                 *)
(***************************************************************************)
EXTENDS Integers, Sequences, FiniteSets, TLC

VARIABLES
    max_size,      \* SimpleCache.max_size
    default_ttl,   \* SimpleCache.default_ttl
    cache,         \* SimpleCache.cache: the dict of hashed key -> CacheEntry
    hit_count,     \* SimpleCache.hit_count
    miss_count,    \* SimpleCache.miss_count
    now,           \* the clock read by datetime.now()
    last,          \* the last call: its name, arguments, return value and effect
    ops_left,      \* calls still explored from a warm start (-1: no limit)
    req,           \* two requests handed to ContentCache.generate_content_key
    keys,          \* the keys computed for them (None until computed)
    content_db,    \* routes/content.py content_db: the records, in insertion order
    resp,          \* the answer to the last POST /generate
    thr,           \* two callers of one SimpleCache: where each is in its call
    hist,          \* what has happened to the callers so far
    requests_per_minute,   \* RateLimiter.requests_per_minute
    requests_per_hour,     \* RateLimiter.requests_per_hour
    request_history,       \* RateLimiter.request_history: ip -> list of timestamps
    last_cleanup,          \* RateLimiter.last_cleanup
    admitted,      \* per ip, the instants of the requests forwarded past the limiter
    lim_resp,      \* what rate_limit_middleware did with the last request
    text,          \* the content handed to ContentAnalytics, a list of characters
    analysis,      \* the last call of ContentAnalytics and what it returned
    padding,       \* the filler words that follow text in the content analysed
    hash_order,    \* the order in which this process iterates a set of keywords
    campaigns_db,  \* routes/content.py campaigns_db: the records, in insertion order
    camp_resp,     \* the answer to the last campaign request
    campaign_ids,  \* the number of ids uuid4 has given to campaigns
    generated      \* the last call of generate_ai_content and what it returned

vars == <<max_size, default_ttl, cache, hit_count, miss_count, now, last, ops_left,
          req, keys, content_db, resp, thr, hist, requests_per_minute,
          requests_per_hour, request_history, last_cleanup, admitted, lim_resp, text,
          analysis, padding, hash_order, campaigns_db, camp_resp, campaign_ids,
          generated>>

cache_vars == <<max_size, default_ttl, cache, hit_count, miss_count, now, last, ops_left>>
cache_vars_but_now ==
    <<max_size, default_ttl, cache, hit_count, miss_count, last, ops_left>>
key_vars == <<req, keys>>
route_vars == <<content_db, resp>>
\* what the cache and the key function leave alone
thread_vars == <<thr, hist>>
limiter_vars == <<requests_per_minute, requests_per_hour, request_history, last_cleanup,
                  admitted, lim_resp>>
analytics_vars == <<text, analysis>>
seo_vars == <<padding, hash_order>>
campaign_vars == <<campaigns_db, camp_resp, campaign_ids>>
generator_vars == <<generated>>
rest_vars == <<seo_vars, campaign_vars, generator_vars>>
other_vars == <<route_vars, thread_vars, limiter_vars, analytics_vars, rest_vars>>

-----------------------------------------------------------------------------
(* Bounds of the model. *)

\* raw keys handed to get / set / delete are 1..NumKeys
NumKeys == 3
\* the clock runs from 0 to MaxTime
MaxTime == 2
\* hit_count and miss_count are capped (get is not called beyond the cap)
MaxCount == 2
\* the size of the cache that starts warm (full); 20 is the least max_size for
\* which max_size // 10 exceeds 1
WarmSize == 20
\* the number of calls explored from the warm start
WarmOps == 2
\* keywords are 1..NumKeywords, keyword lists have at most MaxKeywords elements
NumKeywords == 2
MaxKeywords == 2

\* the constructor's max_size for a cache that starts empty
MaxSizes == {0, 1, 2}
\* the constructor's default_ttl
DefaultTtls == {1}
\* the cached values
Values == {1, 2}

RawKeys == 1..NumKeys
None == << >>
Some(x) == << x >>
\* the ttl arguments of set: none given, 0 and a positive number of seconds
TtlArgs == {None, Some(0), Some(1)}

Max(a, b) == IF a >= b THEN a ELSE b
Min(a, b) == IF a <= b THEN a ELSE b

-----------------------------------------------------------------------------
(* The dict. *)

DictKeys(d) == {d[i].key : i \in DOMAIN d}
DictHas(d, k) == \E i \in DOMAIN d : d[i].key = k
DictGet(d, k) == d[CHOOSE i \in DOMAIN d : d[i].key = k].entry
DictDel(d, k) == SelectSeq(d, LAMBDA it : it.key # k)
DictDelAll(d, ks) == SelectSeq(d, LAMBDA it : it.key \notin ks)
DictPut(d, k, e) ==
    IF DictHas(d, k)
    THEN [i \in DOMAIN d |-> IF d[i].key = k THEN [key |-> k, entry |-> e] ELSE d[i]]
    ELSE Append(d, [key |-> k, entry |-> e])

-----------------------------------------------------------------------------
(* CacheEntry *)

\* CacheEntry.__init__ at the instant t
CacheEntry(value, ttl_seconds, t) ==
    [value |-> value, created_at |-> t, expires_at |-> t + ttl_seconds]

\* (mutant) an entry outlives its expires_at by one second
is_expired_late(entry, t) == t > entry.expires_at + 1

\* CacheEntry.is_expired at the instant t
is_expired(entry, t) == t > entry.expires_at

-----------------------------------------------------------------------------
(* SimpleCache: the helpers *)

\* hashlib.md5(key.encode()).hexdigest(): a digest of the key, equal for equal
\* keys; no two of the keys of the model collide
_generate_key(key) == <<"md5", key>>

\* the keys _cleanup_expired collects
expired_keys(d, t) == {d[i].key : i \in {j \in DOMAIN d : is_expired(d[j].entry, t)}}

_cleanup_expired(d, t) == DictDelAll(d, expired_keys(d, t))

\* sorted(items, key=created_at): Python's sort is stable, so items with equal
\* created_at keep the dict's order
InsertByCreated(s, it) ==
    LET n == Cardinality({i \in DOMAIN s : s[i].entry.created_at <= it.entry.created_at})
    IN  SubSeq(s, 1, n) \o <<it>> \o SubSeq(s, n + 1, Len(s))

RECURSIVE sorted_entries(_)
sorted_entries(d) ==
    IF d = << >> THEN << >>
    ELSE InsertByCreated(sorted_entries(SubSeq(d, 1, Len(d) - 1)), d[Len(d)])

\* (mutant) a tenth of max_size, were it none
num_to_evict_tenth(ms) == ms \div 10

num_to_evict(ms) == Max(1, ms \div 10)

\* (mutant) the first num_to_evict items of the dict as it stands, not sorted
evict_keys_unsorted(d, ms) ==
    {d[i].key : i \in 1..Min(num_to_evict(ms), Len(d))}

\* the keys of sorted_entries[:num_to_evict]
evict_keys(d, ms) ==
    LET se == sorted_entries(d)
    IN  {se[i].key : i \in 1..Min(num_to_evict(ms), Len(se))}

_evict_oldest(d, ms) ==
    IF Len(d) >= ms THEN DictDelAll(d, evict_keys(d, ms)) ELSE d

\* ttl = ttl or self.default_ttl: None and 0 are both falsy
effective_ttl(ttl, dttl) == IF ttl = None \/ ttl[1] = 0 THEN dttl ELSE ttl[1]

-----------------------------------------------------------------------------
(* SimpleCache: what each method returns and leaves in the dict *)

\* get's return value
get_value(d, t, key) ==
    LET ck == _generate_key(key)
    IN  IF ~DictHas(d, ck) THEN None
        ELSE IF is_expired(DictGet(d, ck), t) THEN None
        ELSE Some(DictGet(d, ck).value)

\* get counts a hit
get_hits(d, t, key) ==
    LET ck == _generate_key(key)
    IN  DictHas(d, ck) /\ ~is_expired(DictGet(d, ck), t)

\* (mutant) get purges every expired entry, not only that of its key
get_cache_purging(d, t, key) == _cleanup_expired(d, t)

\* the dict after get
get_cache(d, t, key) ==
    LET ck == _generate_key(key)
    IN  IF DictHas(d, ck) /\ is_expired(DictGet(d, ck), t) THEN DictDel(d, ck) ELSE d

\* (mutant) set stores the entry first and makes room afterwards
set_result_insert_first(d, ms, dttl, t, key, value, ttl) ==
    LET cache_key == _generate_key(key)
        ttl_used == effective_ttl(ttl, dttl)
        stored == DictPut(d, cache_key, CacheEntry(value, ttl_used, t))
        purged == _cleanup_expired(stored, t)
        room == _evict_oldest(purged, ms)
    IN  [cache |-> room,
         dropped |-> Len(stored) - Len(room),
         evicted |-> DictKeys(purged) \ DictKeys(room)]

\* set: the dict after it, the number of entries deleted before the insert, and
\* the keys its call of _evict_oldest deleted
set_result(d, ms, dttl, t, key, value, ttl) ==
    LET cache_key == _generate_key(key)
        ttl_used == effective_ttl(ttl, dttl)
        purged == _cleanup_expired(d, t)
        room == _evict_oldest(purged, ms)
    IN  [cache |-> DictPut(room, cache_key, CacheEntry(value, ttl_used, t)),
         dropped |-> Len(d) - Len(room),
         evicted |-> DictKeys(purged) \ DictKeys(room)]

\* (mutant) delete looks the key up after removing it
delete_value_after(d, key) == DictHas(DictDel(d, _generate_key(key)), _generate_key(key))

\* delete's return value and the dict after it
delete_value(d, key) == DictHas(d, _generate_key(key))
delete_cache(d, key) == DictDel(d, _generate_key(key))

\* (mutant) the percentage cut to two decimals instead of rounded
round2_percent_truncating(num, den) == (num * 10000) \div den

\* round(x, 2) of x = num / den * 100, in hundredths: the nearest hundredth, a tie
\* going to the even one
round2_percent(num, den) ==
    LET q == (num * 10000) \div den
        r == (num * 10000) % den
    IN  IF 2 * r > den \/ (2 * r = den /\ q % 2 = 1) THEN q + 1 ELSE q

\* get_stats' return value, computed on the purged dict; hit_rate_percent is in
\* hundredths of a percent point (33.33 is 3333)
stats_value(d, ms, hits, misses) ==
    LET total_requests == hits + misses
    IN  [size |-> Len(d),
         max_size |-> ms,
         hit_count |-> hits,
         miss_count |-> misses,
         hit_rate_percent |-> IF total_requests > 0
                              THEN round2_percent(hits, total_requests) ELSE 0,
         total_requests |-> total_requests]

NoStats == stats_value(<< >>, 0, 0, 0)

-----------------------------------------------------------------------------
(* ContentCache.generate_content_key *)

\* sorted(list) of keywords: ascending, duplicates kept
InsertSortedKw(s, x) ==
    LET n == Cardinality({i \in DOMAIN s : s[i] <= x})
    IN  SubSeq(s, 1, n) \o <<x>> \o SubSeq(s, n + 1, Len(s))

RECURSIVE sorted(_)
sorted(s) ==
    IF s = << >> THEN << >>
    ELSE InsertSortedKw(sorted(SubSeq(s, 1, Len(s) - 1)), s[Len(s)])

\* keywords or []: keywords is None or a list (Some(list)); None and the empty
\* list are both falsy
keywords_or_empty(keywords) == IF keywords = None THEN << >> ELSE keywords[1]

\* (mutant) the keywords go into the key in the order given
generate_content_key_unsorted(prompt, tone, length, keywords, platform) ==
    << <<"keywords", keywords_or_empty(keywords)>>,
       <<"length", length>>,
       <<"platform", platform>>,
       <<"prompt", prompt>>,
       <<"tone", tone>> >>

\* json.dumps(key_data, sort_keys=True): the fields in the order of their names,
\* each with its value; platform None is written null, a string in quotes
generate_content_key(prompt, tone, length, keywords, platform) ==
    << <<"keywords", sorted(keywords_or_empty(keywords))>>,
       <<"length", length>>,
       <<"platform", platform>>,
       <<"prompt", prompt>>,
       <<"tone", tone>> >>

-----------------------------------------------------------------------------
(* The record of the last call.  dropped: the number of entries the call deleted
   from the dict; evicted: the keys that set's call of _evict_oldest deleted. *)

Call(op, key, value, ret, dropped, evicted, stats) ==
    [op |-> op, key |-> key, value |-> value, ret |-> ret, dropped |-> dropped,
     evicted |-> evicted, stats |-> stats]

NoCall(op) == Call(op, 0, 0, None, 0, {}, NoStats)

\* one more call explored (a warm start explores WarmOps calls)
Spend ==
    /\ ops_left # 0
    /\ ops_left' = IF ops_left > 0 THEN ops_left - 1 ELSE ops_left

-----------------------------------------------------------------------------
(* The operations of SimpleCache.  A result that an action uses more than once is
   bound by \E r \in {result}, which evaluates it once. *)

\* SimpleCache.get(key)
Get(key) ==
    /\ Spend
    /\ \E hit \in {get_hits(cache, now, key)}, left \in {get_cache(cache, now, key)} :
           /\ IF hit THEN hit_count < MaxCount ELSE miss_count < MaxCount
           /\ cache' = left
           /\ hit_count' = IF hit THEN hit_count + 1 ELSE hit_count
           /\ miss_count' = IF hit THEN miss_count ELSE miss_count + 1
           /\ last' = Call("get", key, 0, get_value(cache, now, key),
                           Len(cache) - Len(left), {}, NoStats)
    /\ UNCHANGED <<max_size, default_ttl, now, key_vars, other_vars>>

\* SimpleCache.set(key, value, ttl)
Set(key, value, ttl) ==
    /\ Spend
    /\ \E r \in {set_result(cache, max_size, default_ttl, now, key, value, ttl)} :
           /\ cache' = r.cache
           /\ last' = Call("set", key, value, None, r.dropped, r.evicted, NoStats)
    /\ UNCHANGED <<max_size, default_ttl, hit_count, miss_count, now, key_vars, other_vars>>

\* SimpleCache.delete(key)
Delete(key) ==
    /\ Spend
    /\ \E left \in {delete_cache(cache, key)} :
           /\ cache' = left
           /\ last' = Call("delete", key, 0, Some(delete_value(cache, key)),
                           Len(cache) - Len(left), {}, NoStats)
    /\ UNCHANGED <<max_size, default_ttl, hit_count, miss_count, now, key_vars, other_vars>>

\* (mutant) clear empties the dict and leaves the counters
Clear_keeps_counts ==
    /\ Spend
    /\ cache' = << >>
    /\ last' = Call("clear", 0, 0, None, Len(cache), {}, NoStats)
    /\ UNCHANGED <<max_size, default_ttl, hit_count, miss_count, now, key_vars, other_vars>>

\* SimpleCache.clear()
Clear ==
    /\ Spend
    /\ cache' = << >>
    /\ hit_count' = 0
    /\ miss_count' = 0
    /\ last' = Call("clear", 0, 0, None, Len(cache), {}, NoStats)
    /\ UNCHANGED <<max_size, default_ttl, now, key_vars, other_vars>>

\* SimpleCache.get_stats()
GetStats ==
    /\ Spend
    /\ \E purged \in {_cleanup_expired(cache, now)} :
           /\ cache' = purged
           /\ last' = Call("get_stats", 0, 0, None, Len(cache) - Len(purged), {},
                           stats_value(purged, max_size, hit_count, miss_count))
    /\ UNCHANGED <<max_size, default_ttl, hit_count, miss_count, now, key_vars, other_vars>>

\* time passes between two calls
Tick ==
    /\ now < MaxTime
    /\ now' = now + 1
    /\ last' = NoCall("tick")
    /\ UNCHANGED <<max_size, default_ttl, cache, hit_count, miss_count, ops_left, key_vars, other_vars>>

NoRequest == [prompt |-> 0, tone |-> 0, length |-> 0, keywords |-> None, platform |-> None]

\* no POST /generate answered yet
NoResponse == [status |-> 0, req |-> NoRequest, id |-> 0, content |-> 0,
               from_cache |-> FALSE]

\* the module-level content_db = {} of routes/content.py
RouteIdle ==
    /\ content_db = << >>
    /\ resp = NoResponse

\* a caller outside any call; calls counts the calls it has made
IdleThread(n) == [pc |-> "idle", op |-> "none", key |-> 0, todo |-> << >>, calls |-> n]

\* no caller has called anything
ThreadsIdle ==
    /\ thr = [t \in {1, 2} |-> IdleThread(0)]
    /\ hist = [overlapped |-> FALSE, failed |-> FALSE]

\* the client addresses (request.client.host)
IPs == {1, 2}
NoHistory == [ip \in IPs |-> << >>]
NoLimiterResponse ==
    [ip |-> 0, path |-> "none", status |-> 0, forwarded |-> FALSE, reason |-> "",
     remaining_minute |-> 0, remaining_hour |-> 0, at |-> 0, rejected_at |-> None]

\* rate_limiter = RateLimiter(requests_per_minute=60, requests_per_hour=1000), no
\* request seen
LimiterIdle ==
    /\ requests_per_minute = 60
    /\ requests_per_hour = 1000
    /\ request_history = NoHistory
    /\ last_cleanup = 0
    /\ admitted = NoHistory
    /\ lim_resp = NoLimiterResponse

\* no ContentAnalytics call yet
NoAnalysis == [op |-> "none", keywords |-> None, result |-> [none |-> TRUE]]

AnalyticsIdle ==
    /\ text = << >>
    /\ analysis = NoAnalysis

\* content without filler words
NoPadding == [count |-> 0, stop |-> FALSE]

\* no set of keywords is iterated
SeoIdle ==
    /\ padding = NoPadding
    /\ hash_order = << >>

\* no campaign request yet
NoCampaignResponse == [op |-> "none", status |-> 0, id |-> 0, body |-> << >>]

\* campaigns_db = {}
CampaignsIdle ==
    /\ campaigns_db = << >>
    /\ camp_resp = NoCampaignResponse
    /\ campaign_ids = 0

\* no generate_ai_content call yet
NoGenerated == [op |-> "none"]

GeneratorIdle == generated = NoGenerated

RestIdle == SeoIdle /\ CampaignsIdle /\ GeneratorIdle

\* SimpleCache.__init__: an empty cache
InitEmpty ==
    /\ max_size \in MaxSizes
    /\ default_ttl \in DefaultTtls
    /\ cache = << >>
    /\ hit_count = 0
    /\ miss_count = 0
    /\ now = 0
    /\ last = NoCall("init")
    /\ ops_left = -1

\* A full cache of max_size WarmSize over WarmSize further raw keys, as left by:
\* set of every such key but the last at time 0, then at time 1 a second set of the
\* first one and the set of the last one (no set found the cache full, so none
\* evicted).
warm_cache(dttl) ==
    [i \in 1..WarmSize |->
        [key |-> _generate_key(NumKeys + i),
         entry |-> CacheEntry(1, dttl, IF i = 1 \/ i = WarmSize THEN 1 ELSE 0)]]

InitWarm ==
    /\ max_size = WarmSize
    /\ default_ttl \in DefaultTtls
    /\ cache = warm_cache(default_ttl)
    /\ hit_count = 0
    /\ miss_count = 0
    /\ now = 1
    /\ last = NoCall("init")
    /\ ops_left = WarmOps

Init ==
    /\ InitEmpty \/ InitWarm
    /\ req = <<NoRequest, NoRequest>>
    /\ keys = <<None, None>>
    /\ RouteIdle
    /\ ThreadsIdle
    /\ LimiterIdle
    /\ AnalyticsIdle
    /\ RestIdle

Next ==
    \/ \E key \in RawKeys : Get(key)
    \/ \E key \in RawKeys, value \in Values, ttl \in TtlArgs : Set(key, value, ttl)
    \/ \E key \in RawKeys : Delete(key)
    \/ Clear
    \/ GetStats
    \/ Tick

Spec == Init /\ [][Next]_vars

-----------------------------------------------------------------------------
(* The key function on its own: two requests, each given its key. *)

Prompts == {1, 2}
Tones == {1}
Lengths == {100, 200}
Platforms == {None, Some(1), Some(2)}

RECURSIVE SeqsUpTo(_, _)
SeqsUpTo(S, n) ==
    IF n = 0 THEN {<< >>}
    ELSE SeqsUpTo(S, n - 1) \cup {Append(s, x) : s \in SeqsUpTo(S, n - 1), x \in S}

KeywordArgs == {None} \cup {Some(ks) : ks \in SeqsUpTo(1..NumKeywords, MaxKeywords)}

Requests ==
    [prompt : Prompts, tone : Tones, length : Lengths, keywords : KeywordArgs,
     platform : Platforms]

\* (mutant) the key is built from the keywords in the order given
key_of_unsorted(r) ==
    generate_content_key_unsorted(r.prompt, r.tone, r.length, r.keywords, r.platform)

key_of(r) == generate_content_key(r.prompt, r.tone, r.length, r.keywords, r.platform)

\* ContentCache.generate_content_key called for the i-th request
ComputeKey(i) ==
    /\ keys[i] = None
    /\ keys' = [keys EXCEPT ![i] = Some(key_of(req[i]))]
    /\ UNCHANGED <<req, cache_vars, other_vars>>

InitKey ==
    /\ InitEmpty
    /\ max_size = 0
    /\ req \in Requests \X Requests
    /\ keys = <<None, None>>
    /\ RouteIdle
    /\ ThreadsIdle
    /\ LimiterIdle
    /\ AnalyticsIdle
    /\ RestIdle

NextKey == \E i \in {1, 2} : ComputeKey(i)

SpecKey == InitKey /\ [][NextKey]_vars

-----------------------------------------------------------------------------
(* POST /generate of routes/content.py over the global content_cache.  The
   handler reads the clock in cache.get and in cache.set; the two reads are one
   instant of the model.  A generated text is one of Contents (random.choice of
   the templates); uuid4 gives an id no record has yet. *)

\* content_cache = ContentCache(ttl=3600), a SimpleCache of max_size 500
ContentTtl == 3600
ContentMaxSize == 500
\* the instants at which requests arrive: the start, a second later, a ttl after
\* the start and a second after that
ContentTimes == {0, 1, ContentTtl, ContentTtl + 1}
\* the number of requests explored
RouteOps == 2
\* the texts generate_ai_content may return for one request
Contents == {1, 2}

\* the bodies posted; lengths -1 and 0 fail the validation
ContentRequests ==
    [prompt : {1}, tone : {1}, length : {-1, 0, 100},
     keywords : {Some(<< >>), Some(<<1, 2>>), Some(<<2, 1>>)},
     platform : {None, Some(1)}]

\* (mutant) the handler validates nothing
valid_request_any(r) == TRUE

\* ContentGenerateRequest: length with ge=1, le=5000 (the prompts of the model are
\* not empty)
valid_request(r) == r.length >= 1 /\ r.length <= 5000

\* ContentCache.get_content: the value SimpleCache.get returns for the key
get_content(d, t, r) == get_value(d, t, key_of(r))

\* the dict after get_content, and after the handler has set from_cache in the
\* dict that get returned (the stored value itself)
get_content_cache(d, t, r) ==
    LET left == get_cache(d, t, key_of(r))
    IN  IF get_hits(d, t, key_of(r))
        THEN [i \in DOMAIN left |->
                 IF left[i].key = _generate_key(key_of(r))
                 THEN [left[i] EXCEPT !.entry.value.from_cache = TRUE]
                 ELSE left[i]]
        ELSE left

\* ContentCache.cache_content without a ttl: SimpleCache.set(key, content_data, None)
cache_content(d, ms, dttl, t, r, content_data) ==
    set_result(d, ms, dttl, t, key_of(r), content_data, None).cache

\* uuid4: an id that no record of content_db has
fresh_id(db) == Len(db) + 1

\* response_data of a generated answer
response_data(id, content) == [id |-> id, content |-> content, from_cache |-> FALSE]

\* the answer of the handler: 201 with the ContentResponse, or the 422 of the
\* request validation
Answer(st, r, data) ==
    [status |-> st, req |-> r, id |-> data.id, content |-> data.content,
     from_cache |-> data.from_cache]

\* (mutant) the handler stores a record also when it answers from the cache
generate_records_always(db, cached, r, content) ==
    Append(db, [id |-> fresh_id(db), req |-> r, content |-> content])

\* content_db after the handler: a new record when nothing was cached
generate_records(db, cached, r, content) ==
    IF cached # None THEN db
    ELSE Append(db, [id |-> fresh_id(db), req |-> r, content |-> content])

\* POST /generate with body r; content is the text generate_ai_content returns
\* when it is called
Generate(r, content) ==
    /\ Spend
    /\ IF ~valid_request(r)
       THEN /\ resp' = Answer(422, r, response_data(0, 0))
            /\ UNCHANGED <<cache, hit_count, miss_count, content_db>>
       ELSE \E cached \in {get_content(cache, now, r)},
               left \in {get_content_cache(cache, now, r)} :
                /\ content_db' = generate_records(content_db, cached, r, content)
                /\ IF cached # None
                   THEN /\ hit_count' = hit_count + 1
                        /\ miss_count' = miss_count
                        /\ cache' = left
                        /\ resp' = Answer(201, r, [cached[1] EXCEPT !.from_cache = TRUE])
                   ELSE \E data \in {response_data(fresh_id(content_db), content)} :
                            /\ hit_count' = hit_count
                            /\ miss_count' = miss_count + 1
                            /\ cache' = cache_content(left, max_size, default_ttl, now,
                                                      r, data)
                            /\ resp' = Answer(201, r, data)
    /\ UNCHANGED <<max_size, default_ttl, now, last, key_vars, thread_vars, limiter_vars,
                   analytics_vars, rest_vars>>

\* time passes between two requests, up to the instant t
Elapse(t) ==
    /\ t > now
    /\ now' = t
    /\ UNCHANGED <<max_size, default_ttl, cache, hit_count, miss_count, last, ops_left,
                   key_vars, other_vars>>

InitContent ==
    /\ max_size = ContentMaxSize
    /\ default_ttl = ContentTtl
    /\ cache = << >>
    /\ hit_count = 0
    /\ miss_count = 0
    /\ now = 0
    /\ last = NoCall("init")
    /\ ops_left = RouteOps
    /\ req = <<NoRequest, NoRequest>>
    /\ keys = <<None, None>>
    /\ RouteIdle
    /\ ThreadsIdle
    /\ LimiterIdle
    /\ AnalyticsIdle
    /\ RestIdle

NextContent ==
    \/ \E r \in ContentRequests, content \in Contents : Generate(r, content)
    \/ \E t \in ContentTimes : Elapse(t)

SpecContent == InitContent /\ [][NextContent]_vars

-----------------------------------------------------------------------------
(* Two callers of one SimpleCache without a lock.  A call is cut into steps at
   statement boundaries: a membership test, a read, a del, the scan that collects
   the keys to delete, the store.  A step of one caller may follow any step of
   the other.  del of a key that is not in the dict raises KeyError, which ends
   the call.  Every caller makes at most ThreadCalls calls. *)

ThreadCalls == 2
Threads == {1, 2}
ThreadKeys == {1, 2}
ThreadOps == {"get", "set", "delete", "get_stats"}
\* the constructor's max_size of the shared cache
ThreadMaxSizes == {0, 1}

\* expired_keys of _cleanup_expired as the list it is, in the dict's order
expired_key_list(d, t) ==
    LET ex == SelectSeq(d, LAMBDA it : is_expired(it.entry, t))
    IN  [i \in DOMAIN ex |-> ex[i].key]

\* the keys of sorted_entries[:num_to_evict] as the list _evict_oldest walks
evict_key_list(d, ms) ==
    LET se == sorted_entries(d)
    IN  [i \in 1..Min(num_to_evict(ms), Len(se)) |-> se[i].key]

\* the first statement of each method
first_pc(op) ==
    CASE op = "get" -> "get_check"
      [] op = "set" -> "cleanup_scan"
      [] op = "delete" -> "delete_check"
      [] op = "get_stats" -> "cleanup_scan"

\* the other caller is inside a call while t takes a step
Overlap(t) == \E u \in Threads \ {t} : thr[u].pc # "idle"

Note(t, failed) ==
    hist' = [overlapped |-> hist.overlapped \/ Overlap(t),
             failed |-> hist.failed \/ failed]

\* caller t moves to pc with the list todo; idle ends the call
Goto(t, pc, todo) ==
    thr' = [thr EXCEPT ![t] = IF pc = "idle" THEN IdleThread(thr[t].calls)
                              ELSE [thr[t] EXCEPT !.pc = pc, !.todo = todo]]

ThreadQuiet ==
    UNCHANGED <<max_size, default_ttl, now, last, ops_left, key_vars, route_vars,
                limiter_vars, analytics_vars, rest_vars>>

\* caller t enters op(key): cache_key = self._generate_key(key)
ThreadCall(t, op, key) ==
    /\ thr[t].pc = "idle"
    /\ thr[t].calls < ThreadCalls
    /\ (op = "get_stats") => (key = 1)
    /\ thr' = [thr EXCEPT ![t] = [pc |-> first_pc(op), op |-> op, key |-> key,
                                  todo |-> << >>, calls |-> thr[t].calls + 1]]
    /\ Note(t, FALSE)
    /\ UNCHANGED <<cache, hit_count, miss_count>>
    /\ ThreadQuiet

\* get: if cache_key not in self.cache: self.miss_count += 1; return None
GetCheck(t) ==
    /\ thr[t].pc = "get_check"
    /\ IF DictHas(cache, _generate_key(thr[t].key))
       THEN Goto(t, "get_read", << >>) /\ miss_count' = miss_count
       ELSE Goto(t, "idle", << >>) /\ miss_count' = miss_count + 1
    /\ Note(t, FALSE)
    /\ UNCHANGED <<cache, hit_count>>
    /\ ThreadQuiet

\* get: entry = self.cache[cache_key], which raises KeyError when the key is
\* gone; then the test of entry.is_expired() and, for a live entry, the hit
GetRead(t) ==
    /\ thr[t].pc = "get_read"
    /\ LET ck == _generate_key(thr[t].key)
       IN  IF ~DictHas(cache, ck)
           THEN Goto(t, "idle", << >>) /\ Note(t, TRUE) /\ hit_count' = hit_count
           ELSE IF is_expired(DictGet(cache, ck), now)
                THEN Goto(t, "get_del", << >>) /\ Note(t, FALSE) /\ hit_count' = hit_count
                ELSE Goto(t, "idle", << >>) /\ Note(t, FALSE) /\ hit_count' = hit_count + 1
    /\ UNCHANGED <<cache, miss_count>>
    /\ ThreadQuiet

\* get: del self.cache[cache_key]; self.miss_count += 1; return None
GetDel(t) ==
    /\ thr[t].pc = "get_del"
    /\ LET ck == _generate_key(thr[t].key)
       IN  IF DictHas(cache, ck)
           THEN /\ cache' = DictDel(cache, ck)
                /\ miss_count' = miss_count + 1
                /\ Note(t, FALSE)
           ELSE /\ UNCHANGED <<cache, miss_count>>
                /\ Note(t, TRUE)
    /\ Goto(t, "idle", << >>)
    /\ UNCHANGED hit_count
    /\ ThreadQuiet

\* what follows _cleanup_expired: _evict_oldest in set, the report in get_stats
after_cleanup(op) == IF op = "set" THEN "evict_scan" ELSE "stats_read"

\* _cleanup_expired: expired_keys = [key for key, entry in self.cache.items() ...]
CleanupScan(t) ==
    /\ thr[t].pc = "cleanup_scan"
    /\ \E todo \in {expired_key_list(cache, now)} :
           Goto(t, IF todo = << >> THEN after_cleanup(thr[t].op) ELSE "cleanup_del", todo)
    /\ Note(t, FALSE)
    /\ UNCHANGED <<cache, hit_count, miss_count>>
    /\ ThreadQuiet

\* one del self.cache[key] of a loop over the collected keys: KeyError ends the
\* call, the last key ends the loop
ThreadDel(t, next_pc) ==
    LET k == Head(thr[t].todo)
        rest == Tail(thr[t].todo)
    IN  IF DictHas(cache, k)
        THEN /\ cache' = DictDel(cache, k)
             /\ Goto(t, IF rest = << >> THEN next_pc ELSE thr[t].pc, rest)
             /\ Note(t, FALSE)
        ELSE /\ cache' = cache
             /\ Goto(t, "idle", << >>)
             /\ Note(t, TRUE)

\* _cleanup_expired: for key in expired_keys: del self.cache[key]
CleanupDel(t) ==
    /\ thr[t].pc = "cleanup_del"
    /\ ThreadDel(t, after_cleanup(thr[t].op))
    /\ UNCHANGED <<hit_count, miss_count>>
    /\ ThreadQuiet

\* _evict_oldest: the test of len(self.cache) >= self.max_size and the sorted
\* entries to evict
EvictScan(t) ==
    /\ thr[t].pc = "evict_scan"
    /\ IF Len(cache) >= max_size
       THEN \E todo \in {evict_key_list(cache, max_size)} :
                Goto(t, IF todo = << >> THEN "store" ELSE "evict_del", todo)
       ELSE Goto(t, "store", << >>)
    /\ Note(t, FALSE)
    /\ UNCHANGED <<cache, hit_count, miss_count>>
    /\ ThreadQuiet

\* _evict_oldest: for key, _ in sorted_entries[:num_to_evict]: del self.cache[key]
EvictDel(t) ==
    /\ thr[t].pc = "evict_del"
    /\ ThreadDel(t, "store")
    /\ UNCHANGED <<hit_count, miss_count>>
    /\ ThreadQuiet

\* set: self.cache[cache_key] = CacheEntry(value, ttl), with the default ttl
Store(t) ==
    /\ thr[t].pc = "store"
    /\ cache' = DictPut(cache, _generate_key(thr[t].key),
                        CacheEntry(1, effective_ttl(None, default_ttl), now))
    /\ Goto(t, "idle", << >>)
    /\ Note(t, FALSE)
    /\ UNCHANGED <<hit_count, miss_count>>
    /\ ThreadQuiet

\* delete: if cache_key in self.cache
DeleteCheck(t) ==
    /\ thr[t].pc = "delete_check"
    /\ Goto(t, IF DictHas(cache, _generate_key(thr[t].key)) THEN "delete_del" ELSE "idle",
            << >>)
    /\ Note(t, FALSE)
    /\ UNCHANGED <<cache, hit_count, miss_count>>
    /\ ThreadQuiet

\* delete: del self.cache[cache_key]; return True
DeleteDel(t) ==
    /\ thr[t].pc = "delete_del"
    /\ LET ck == _generate_key(thr[t].key)
       IN  IF DictHas(cache, ck)
           THEN cache' = DictDel(cache, ck) /\ Note(t, FALSE)
           ELSE cache' = cache /\ Note(t, TRUE)
    /\ Goto(t, "idle", << >>)
    /\ UNCHANGED <<hit_count, miss_count>>
    /\ ThreadQuiet

\* get_stats: the counters and len(self.cache) are read and returned
StatsRead(t) ==
    /\ thr[t].pc = "stats_read"
    /\ Goto(t, "idle", << >>)
    /\ Note(t, FALSE)
    /\ UNCHANGED <<cache, hit_count, miss_count>>
    /\ ThreadQuiet

\* time passes, also in the middle of a call
ThreadTick ==
    /\ now < MaxTime
    /\ now' = now + 1
    /\ UNCHANGED <<max_size, default_ttl, cache, hit_count, miss_count, last, ops_left,
                   key_vars, route_vars, thread_vars, limiter_vars, analytics_vars, rest_vars>>

InitThreads ==
    /\ max_size \in ThreadMaxSizes
    /\ default_ttl \in DefaultTtls
    /\ cache = << >>
    /\ hit_count = 0
    /\ miss_count = 0
    /\ now = 0
    /\ last = NoCall("init")
    /\ ops_left = -1
    /\ req = <<NoRequest, NoRequest>>
    /\ keys = <<None, None>>
    /\ RouteIdle
    /\ ThreadsIdle
    /\ LimiterIdle
    /\ AnalyticsIdle
    /\ RestIdle

NextThreads ==
    \/ \E t \in Threads, op \in ThreadOps, key \in ThreadKeys : ThreadCall(t, op, key)
    \/ \E t \in Threads : GetCheck(t)
    \/ \E t \in Threads : GetRead(t)
    \/ \E t \in Threads : GetDel(t)
    \/ \E t \in Threads : CleanupScan(t)
    \/ \E t \in Threads : CleanupDel(t)
    \/ \E t \in Threads : EvictScan(t)
    \/ \E t \in Threads : EvictDel(t)
    \/ \E t \in Threads : Store(t)
    \/ \E t \in Threads : DeleteCheck(t)
    \/ \E t \in Threads : DeleteDel(t)
    \/ \E t \in Threads : StatsRead(t)
    \/ ThreadTick

SpecThreads == InitThreads /\ [][NextThreads]_vars

-----------------------------------------------------------------------------
(* middleware/rate_limiter.py: RateLimiter and rate_limit_middleware.  A
   timestamp is the second at which datetime.now() was read; the reads of one
   request are one instant.  A defaultdict entry holding the empty list is the
   same as no entry: request_history maps every ip to its list. *)

\* timedelta(minutes=1), timedelta(hours=1), the cleanup period and the range of
\* timedelta.seconds, in seconds
MinuteSeconds == 60
HourSeconds == 3600
CleanupSeconds == 600
DaySeconds == 86400

\* the instants at which requests arrive
LimiterTimes == {0, 60, 61, 600, 3600, 86460}
\* the limits the limiter is constructed with: requests_per_minute and
\* requests_per_hour
Limits == {<<1, 2>>, <<2, 3>>}
Paths == {"/health", "/api/v1/content/generate"}

\* (mutant) a timestamp exactly one window old still counts
later_than_inclusive(timestamps, t, window) ==
    SelectSeq(timestamps, LAMBDA ts : ts >= t - window)

\* the timestamps of the list later than t - window
later_than(timestamps, t, window) == SelectSeq(timestamps, LAMBDA ts : ts > t - window)

\* (now - self.last_cleanup).seconds < 600 is false: timedelta.seconds is the
\* seconds part of the difference, the days left out
cleanup_due(t, lc) == (t - lc) % DaySeconds >= CleanupSeconds

\* _cleanup_old_entries: the history after it
_cleanup_old_entries(h, t, lc) ==
    IF cleanup_due(t, lc)
    THEN [ip \in IPs |-> later_than(h[ip], t, HourSeconds)]
    ELSE h

\* _cleanup_old_entries: last_cleanup after it
cleanup_time(t, lc) == IF cleanup_due(t, lc) THEN t ELSE lc

\* (mutant) the limit is reached only by more than rpm requests
is_rate_limited_lenient(timestamps, t, rpm, rph) ==
    IF Len(later_than(timestamps, t, MinuteSeconds)) > rpm THEN "minute"
    ELSE IF Len(later_than(timestamps, t, HourSeconds)) > rph THEN "hour"
    ELSE ""

\* is_rate_limited on the list of the ip: which limit is reached ("" for none)
is_rate_limited(timestamps, t, rpm, rph) ==
    IF Len(later_than(timestamps, t, MinuteSeconds)) >= rpm THEN "minute"
    ELSE IF Len(later_than(timestamps, t, HourSeconds)) >= rph THEN "hour"
    ELSE ""

\* record_request
record_request(h, ip, t) == [h EXCEPT ![ip] = Append(@, t)]

\* get_rate_limit_info: remaining_minute and remaining_hour
remaining(timestamps, t, window, limit) ==
    Max(0, limit - Len(later_than(timestamps, t, window)))

LimiterQuiet ==
    UNCHANGED <<requests_per_minute, requests_per_hour, now, cache_vars_but_now, key_vars,
                route_vars, thread_vars, analytics_vars, rest_vars>>

\* (mutant) the middleware records the request before it tests the limit
limited_history_recording(h, ip, t) == record_request(h, ip, t)

\* the history the middleware leaves when it answers 429
limited_history(h, ip, t) == h

\* (mutant) /health is rate limited like every path
skips_limiter_never(path) == FALSE

\* if request.url.path == "/health"
skips_limiter(path) == path = "/health"

\* the instant at which the response before this one told ip that it is over the
\* per-minute limit (None when the response before was not that)
rejected_before(r, ip) ==
    IF r.status = 429 /\ r.reason = "minute" /\ r.ip = ip THEN Some(r.at) ELSE None

\* rate_limit_middleware for a request of ip to path
Request(ip, path) ==
    /\ IF skips_limiter(path)
       THEN /\ lim_resp' = [ip |-> ip, path |-> path, status |-> 200, forwarded |-> TRUE,
                            reason |-> "", remaining_minute |-> 0, remaining_hour |-> 0,
                            at |-> now, rejected_at |-> rejected_before(lim_resp, ip)]
            /\ UNCHANGED <<request_history, last_cleanup, admitted>>
       ELSE \E h \in {_cleanup_old_entries(request_history, now, last_cleanup)} :
            \E reason \in {is_rate_limited(h[ip], now, requests_per_minute,
                                            requests_per_hour)} :
                /\ last_cleanup' = cleanup_time(now, last_cleanup)
                /\ IF reason # ""
                   THEN /\ request_history' = limited_history(h, ip, now)
                        /\ admitted' = admitted
                        /\ lim_resp' = [ip |-> ip, path |-> path, status |-> 429,
                                        forwarded |-> FALSE, reason |-> reason,
                                        remaining_minute |-> 0, remaining_hour |-> 0,
                                        at |-> now,
                                        rejected_at |-> rejected_before(lim_resp, ip)]
                   ELSE \E h2 \in {record_request(h, ip, now)} :
                        /\ request_history' = h2
                        /\ admitted' = record_request(admitted, ip, now)
                        /\ lim_resp' =
                               [ip |-> ip, path |-> path, status |-> 200,
                                forwarded |-> TRUE, reason |-> "",
                                remaining_minute |->
                                    remaining(h2[ip], now, MinuteSeconds, requests_per_minute),
                                remaining_hour |->
                                    remaining(h2[ip], now, HourSeconds, requests_per_hour),
                                at |-> now,
                                rejected_at |-> rejected_before(lim_resp, ip)]
    /\ LimiterQuiet

\* time passes between two requests, up to the instant t
LimiterElapse(t) ==
    /\ t > now
    /\ now' = t
    /\ UNCHANGED <<cache_vars_but_now, key_vars, other_vars>>

InitLimiter ==
    /\ InitEmpty
    /\ max_size = 0
    /\ req = <<NoRequest, NoRequest>>
    /\ keys = <<None, None>>
    /\ RouteIdle
    /\ ThreadsIdle
    /\ \E l \in Limits : requests_per_minute = l[1] /\ requests_per_hour = l[2]
    /\ request_history = NoHistory
    /\ last_cleanup = 0
    /\ admitted = NoHistory
    /\ lim_resp = NoLimiterResponse
    /\ AnalyticsIdle
    /\ RestIdle

NextLimiter ==
    \/ \E ip \in IPs, path \in Paths : Request(ip, path)
    \/ \E t \in LimiterTimes : LimiterElapse(t)

SpecLimiter == InitLimiter /\ [][NextLimiter]_vars

-----------------------------------------------------------------------------
(* services/content_analytics.py: ContentAnalytics.  A str is the list of its
   characters.  The floats of the code are exact fractions here: a quotient is
   kept as numerator and denominator, and round(x, 2) gives hundredths (12.34 is
   1234), a tie going to the even one. *)

\* the characters of the contents and keywords
Alphabet == {"a", "e", "b", "A", " ", "."}
\* contents have at most MaxTextLen characters
MaxTextLen == 5
Texts == SeqsUpTo(Alphabet, MaxTextLen)
\* the keywords arguments: missing, empty, and lists of keywords
AnalyticsKeywords ==
    {None, Some(<< >>), Some(<< <<"a">> >>), Some(<< <<"A", "b">>, <<"e">> >>),
     Some(<< <<"b">>, <<"b">> >>)}

\* str.lower
lower_char(c) == IF c = "A" THEN "a" ELSE c
lower(str) == [i \in DOMAIN str |-> lower_char(str[i])]

\* whitespace, for str.split() and str.strip()
Whitespace == {" "}
is_space(c) == c \in Whitespace
\* the class [.!?] of the sentence pattern
Terminators == {".", "!", "?"}
is_terminator(c) == c \in Terminators
\* char in 'aeiouy'
is_vowel(c) == c \in {"a", "e", "i", "o", "u", "y"}

\* the positions at which a maximal run of characters that are not separators
\* begins
run_starts(str, separators) ==
    {i \in DOMAIN str : str[i] \notin separators
                            /\ (i = 1 \/ str[i - 1] \in separators)}

\* the run that begins at position i
run_at(str, separators, i) ==
    LET j == CHOOSE n \in i..Len(str) :
                 /\ \A k \in i..n : str[k] \notin separators
                 /\ n = Len(str) \/ str[n + 1] \in separators
    IN  SubSeq(str, i, j)

\* content.split(): the words begin at these positions
word_starts(str) == run_starts(str, Whitespace)

\* re.split(r'[.!?]+', content), stripped, the empty pieces dropped: the sentences
\* begin at these positions
sentence_starts(str) ==
    {i \in run_starts(str, Terminators) :
        \E piece \in {run_at(str, Terminators, i)} :
            \E k \in DOMAIN piece : ~is_space(piece[k])}

\* the element of a set of one element: TheOnly({e(x) : x \in {v}}) is e(v) with
\* v computed once
TheOnly(S) == CHOOSE x \in S : TRUE

\* ContentAnalytics._count_syllables
_count_syllables(word) ==
    LET w == lower(word)
        groups == Cardinality({i \in DOMAIN w :
                                  is_vowel(w[i]) /\ (i = 1 \/ ~is_vowel(w[i - 1]))})
        adjusted == IF w # << >> /\ w[Len(w)] = "e" THEN groups - 1 ELSE groups
    IN  IF adjusted = 0 THEN 1 ELSE adjusted

\* sum(self._count_syllables(word) for word in words)
RECURSIVE total_syllables(_, _)
total_syllables(str, starts) ==
    IF starts = {} THEN 0
    ELSE LET i == CHOOSE n \in starts : TRUE
         IN  _count_syllables(run_at(str, Whitespace, i))
                 + total_syllables(str, starts \ {i})

\* round(num / den, 2) in hundredths, for num >= 0 and den > 0: the nearest
\* hundredth, a tie going to the even one
round2(num, den) ==
    LET q == (num * 100) \div den
        r == (num * 100) % den
    IN  IF 2 * r > den \/ (2 * r = den /\ q % 2 = 1) THEN q + 1 ELSE q

\* round(x, 2) in hundredths of a float x = num / den that was computed with
\* constants that are no binary fractions: a value halfway between two hundredths
\* is a float just above or just below it, and up tells which
round2_float(num, den, up) ==
    LET q == (num * 100) \div den
        r == (num * 100) % den
    IN  IF 2 * r > den \/ (2 * r = den /\ up) THEN q + 1 ELSE q

\* (mutant) the score is capped at 100 and not raised to 0
clamp_upper_only(num, den) == IF num > 100 * den THEN 100 * den ELSE num

\* max(0, min(100, num / den)): the numerator of the clamped fraction over den
clamp(num, den) ==
    IF num > 100 * den THEN 100 * den
    ELSE IF num < 0 THEN 0
    ELSE num

\* lines 40-59 of analyze_readability, from the words, sentences and syllables
\* counted; reading_ease is
\* 206.835 - 1.015 * words / sentences - 84.6 * syllables / max(words, 1), kept in
\* thousandths over the common denominator
readability(word_count, sentences, syllables, up) ==
    LET sentence_count == Max(sentences, 1)
        words_div == Max(word_count, 1)
        den == 1000 * sentence_count * words_div
        num == 206835 * sentence_count * words_div
                   - 1015 * word_count * words_div
                   - 84600 * syllables * sentence_count
    IN  [reading_ease_score |-> round2_float(clamp(num, den), den, up),
         avg_words_per_sentence |-> round2(word_count, sentence_count),
         total_words |-> word_count,
         total_sentences |-> sentence_count]

\* ContentAnalytics.analyze_readability
analyze_readability(str, up) ==
    TheOnly({readability(word_count, sentences, syllables, up) :
                 word_count \in {Cardinality(word_starts(str))},
                 sentences \in {Cardinality(sentence_starts(str))},
                 syllables \in {total_syllables(str, word_starts(str))}})

\* str.count(sub): the occurrences of sub that do not overlap, from position i on
RECURSIVE str_count(_, _, _)
str_count(str, sub, i) ==
    IF i + Len(sub) - 1 > Len(str) THEN 0
    ELSE IF SubSeq(str, i, i + Len(sub) - 1) = sub
         THEN 1 + str_count(str, sub, i + Len(sub))
         ELSE str_count(str, sub, i + 1)

\* one round of the loop of analyze_keyword_density, lines 131-136
keyword_step(acc, keyword, count) ==
    IF count > 0
    THEN [keywords_found |-> Append(acc.keywords_found, keyword),
          keyword_frequency |-> DictPut(acc.keyword_frequency, keyword, count),
          total_keyword_occurrences |-> acc.total_keyword_occurrences + count]
    ELSE acc

\* the loop of analyze_keyword_density over the first n keywords
RECURSIVE keyword_loop(_, _, _)
keyword_loop(str, keywords, n) ==
    IF n = 0
    THEN [keywords_found |-> << >>, keyword_frequency |-> << >>,
          total_keyword_occurrences |-> 0]
    ELSE TheOnly({keyword_step(acc, keywords[n], count) :
                      acc \in {keyword_loop(str, keywords, n - 1)},
                      count \in {str_count(lower(str), lower(keywords[n]), 1)}})

\* lines 138-145: the dict returned for the counts of the loop
keyword_density_result(acc, total_words) ==
    [keyword_density |->
         round2_percent(acc.total_keyword_occurrences, Max(total_words, 1)),
     keywords_found |-> acc.keywords_found,
     keyword_frequency |-> acc.keyword_frequency,
     total_keyword_occurrences |-> acc.total_keyword_occurrences]

\* ContentAnalytics.analyze_keyword_density: the dict it returns, a record with
\* the keys of the dict as its fields; keyword_density in hundredths
analyze_keyword_density(str, keywords) ==
    IF keywords = << >>
    THEN [keyword_density |-> 0, keywords_found |-> << >>, keyword_frequency |-> << >>]
    ELSE TheOnly({keyword_density_result(acc, Cardinality(word_starts(lower(str)))) :
                      acc \in {keyword_loop(str, keywords, Len(keywords))}})

\* the rest of the program does not take part in an analysis
AnalyticsQuiet ==
    UNCHANGED <<cache_vars, key_vars, route_vars, thread_vars, limiter_vars, rest_vars>>

\* a ContentAnalytics keeps nothing between calls, so a call does not depend on
\* the calls before it: each content string is analysed by one call
NotAnalysed == analysis = NoAnalysis

\* analytics.analyze_readability(text)
AnalyzeReadability(up) ==
    /\ NotAnalysed
    /\ analysis' = [op |-> "analyze_readability", keywords |-> None,
                    result |-> analyze_readability(text, up)]
    /\ UNCHANGED text
    /\ AnalyticsQuiet

\* analytics.analyze_keyword_density(text, keywords)
AnalyzeKeywordDensity(keywords) ==
    /\ NotAnalysed
    /\ keywords # None
    /\ analysis' = [op |-> "analyze_keyword_density", keywords |-> keywords,
                    result |-> analyze_keyword_density(text, keywords[1])]
    /\ UNCHANGED text
    /\ AnalyticsQuiet

\* a ContentAnalytics and a content string, nothing analysed yet
InitAnalytics ==
    /\ text \in Texts
    /\ InitEmpty
    /\ max_size = 0
    /\ req = NoRequest
    /\ keys = << >>
    /\ RouteIdle
    /\ ThreadsIdle
    /\ LimiterIdle
    /\ analysis = NoAnalysis
    /\ RestIdle

NextAnalytics ==
    \/ \E up \in BOOLEAN : AnalyzeReadability(up)
    \/ \E keywords \in AnalyticsKeywords : AnalyzeKeywordDensity(keywords)

SpecAnalytics == InitAnalytics /\ [][NextAnalytics]_vars

-----------------------------------------------------------------------------
(* ContentAnalytics.generate_seo_recommendations                            *)
(*                                                                         *)
(* The thresholds of the checks are 300 and 2000 words and 20 words per    *)
(* sentence, so the content analysed is text followed by padding.count     *)
(* filler words " x", each closed by a full stop when padding.stop: what   *)
(* the code computes on that string is computed here from text and the     *)
(* number of fillers.  The keywords hold no blank, no full stop and no x,  *)
(* so none of them is found in the filler.                                 *)

ShortWords == 300
LongWords == 2000
LowDensity == 1
HighDensity == 3
LongSentence == 20
MissingShown == 3

FillerWord == <<" ", "x">>
FillerSentence == <<" ", "x", ".">>

MaxPhrases == 3

\* the strings that make up a content, and the contents made of them
RECURSIVE Concat(_)
Concat(parts) ==
    IF parts = << >> THEN << >> ELSE Head(parts) \o Concat(Tail(parts))

SeoPhrases ==
    {<<"a", "i">>, <<" ", "s", "e", "o">>, <<"?">>, <<"1">>, <<".">>, <<" ", "b">>}
SeoTexts == {Concat(parts) : parts \in SeqsUpTo(SeoPhrases, MaxPhrases)}

Paddings ==
    {NoPadding, [count |-> 40, stop |-> FALSE], [count |-> 300, stop |-> TRUE],
     [count |-> 2001, stop |-> TRUE]}

SeoKeywordLists ==
    {None, Some(<< >>), Some(<< <<"A", "i">> >>), Some(<< <<"a", "i">>, <<"s", "e", "o">> >>),
     Some(<< <<"a", "i">>, <<"s", "e", "o">>, <<"b", "i", "d">>, <<"c", "p", "c">> >>)}

\* iterating a set of str follows the hashes of the strings, which CPython salts
\* anew for each process: an order of the keywords that a process keeps
HashOrders ==
    {<< <<"A", "i">>, <<"a", "i">>, <<"s", "e", "o">>, <<"b", "i", "d">>, <<"c", "p", "c">> >>,
     << <<"s", "e", "o">>, <<"c", "p", "c">>, <<"a", "i">>, <<"A", "i">>, <<"b", "i", "d">> >>}

Digits == {"0", "1", "2", "3", "4", "5", "6", "7", "8", "9"}

\* len(content.split()) for the content text + fillers
content_words(str, pad) == Cardinality(word_starts(str)) + pad.count

\* the number of non-blank pieces of re.split(r'[.!?]+', content): fillers
\* without full stop lengthen the last piece, each filler with one adds a piece
content_sentences(str, pad) ==
    IF pad.count = 0 THEN Cardinality(sentence_starts(str))
    ELSE IF pad.stop
         THEN Cardinality(sentence_starts(str \o FillerSentence)) + pad.count - 1
         ELSE Cardinality(sentence_starts(str \o FillerWord))

\* readability['avg_words_per_sentence'] of analyze_readability(content)
avg_words_per_sentence(str, pad) ==
    round2(content_words(str, pad), Max(content_sentences(str, pad), 1))

\* analyze_keyword_density(content, keywords) for the content text + fillers
content_keyword_density(str, pad, keywords) ==
    IF keywords = << >>
    THEN [keyword_density |-> 0, keywords_found |-> << >>, keyword_frequency |-> << >>]
    ELSE TheOnly({keyword_density_result(acc, content_words(str, pad)) :
                      acc \in {keyword_loop(str, keywords, Len(keywords))}})

\* a recommendation: which check appended it and, for the missing keywords, the
\* keywords its text joins
Recommendation(kind) == [kind |-> kind, keywords |-> << >>]

\* list(missing_keywords)[:3]: the set in the order of the process
first_missing(missing, order) ==
    LET listed == SelectSeq(order, LAMBDA k : k \in missing)
    IN  SubSeq(listed, 1, Min(Len(listed), MissingShown))

\* the word count check, lines 159-162
length_recommendations(word_count) ==
    IF word_count < ShortWords THEN <<Recommendation("short")>>
    ELSE IF word_count > LongWords THEN <<Recommendation("long")>>
    ELSE << >>

\* lines 167-176: the recommendations for a keyword analysis
recommendations_of(keyword_analysis, kws, order) ==
    LET density == keyword_analysis.keyword_density
        missing == {kws[i] : i \in DOMAIN kws}
                       \ {keyword_analysis.keywords_found[i] :
                              i \in DOMAIN keyword_analysis.keywords_found}
    IN  (IF density < 100 * LowDensity THEN <<Recommendation("density_low")>>
         ELSE IF density > 100 * HighDensity THEN <<Recommendation("density_high")>>
         ELSE << >>)
        \o (IF missing # {}
            THEN <<[kind |-> "missing", keywords |-> first_missing(missing, order)]>>
            ELSE << >>)

\* the body of the keyword checks, lines 166-176
keyword_recommendations(str, pad, keywords, order) ==
    TheOnly({recommendations_of(keyword_analysis, keywords_or_empty(keywords), order) :
                 keyword_analysis \in {content_keyword_density(str, pad,
                                           keywords_or_empty(keywords))}})

\* (mutant) the density is judged also without keywords
density_recommendations_ungated(str, pad, keywords, order) ==
    keyword_recommendations(str, pad, keywords, order)

\* the keyword checks, lines 165-176: skipped when keywords is None or empty
density_recommendations(str, pad, keywords, order) ==
    IF keywords_or_empty(keywords) = << >> THEN << >>
    ELSE keyword_recommendations(str, pad, keywords, order)

\* the checks of structure and readability, lines 179-188
structure_recommendations(str, pad) ==
    (IF \A i \in DOMAIN str : str[i] # "?"
     THEN <<Recommendation("questions")>> ELSE << >>)
    \o (IF \A i \in DOMAIN str : str[i] \notin Digits
        THEN <<Recommendation("numbers")>> ELSE << >>)
    \o (IF avg_words_per_sentence(str, pad) > 100 * LongSentence
        THEN <<Recommendation("sentences")>> ELSE << >>)

\* (mutant) the closing message is appended to whatever was recommended
with_looks_good_always(recommendations) ==
    Append(recommendations, Recommendation("looks_good"))

\* lines 190-191
with_looks_good(recommendations) ==
    IF recommendations = << >> THEN <<Recommendation("looks_good")>>
    ELSE recommendations

\* ContentAnalytics.generate_seo_recommendations
generate_seo_recommendations(str, pad, keywords, order) ==
    with_looks_good(length_recommendations(content_words(str, pad))
                        \o density_recommendations(str, pad, keywords, order)
                        \o structure_recommendations(str, pad))

\* analytics.generate_seo_recommendations(content, keywords)
GenerateSeoRecommendations(keywords) ==
    /\ analysis' = [op |-> "generate_seo_recommendations", keywords |-> keywords,
                    result |-> generate_seo_recommendations(text, padding, keywords,
                                                            hash_order)]
    /\ UNCHANGED <<text, padding, hash_order>>
    /\ UNCHANGED <<cache_vars, key_vars, route_vars, thread_vars, limiter_vars,
                   campaign_vars, generator_vars>>

\* the service is started again, or the request goes to another worker process:
\* ContentAnalytics keeps no state, the process has its own hash salt
Restart(order) ==
    /\ order # hash_order
    /\ hash_order' = order
    /\ UNCHANGED <<text, analysis, padding>>
    /\ UNCHANGED <<cache_vars, key_vars, route_vars, thread_vars, limiter_vars,
                   campaign_vars, generator_vars>>

InitSeo ==
    /\ text \in SeoTexts
    /\ InitEmpty
    /\ max_size = 0
    /\ req = NoRequest
    /\ keys = << >>
    /\ RouteIdle
    /\ ThreadsIdle
    /\ LimiterIdle
    /\ analysis = NoAnalysis
    /\ padding \in Paddings
    /\ hash_order \in HashOrders
    /\ CampaignsIdle
    /\ GeneratorIdle

NextSeo ==
    \/ \E keywords \in SeoKeywordLists : GenerateSeoRecommendations(keywords)
    \/ \E order \in HashOrders : Restart(order)

SpecSeo == InitSeo /\ [][NextSeo]_vars

-----------------------------------------------------------------------------
(* ContentAnalytics.analyze_engagement_potential and generate_content_report.
   The content is text followed by the filler words of padding, as for the
   recommendations; no word of the three lists, no question mark and no digit
   is in the filler. *)

\* self.positive_keywords
positive_keywords ==
    <<<<"a", "m", "a", "z", "i", "n", "g">>,
      <<"e", "x", "c", "e", "l", "l", "e", "n", "t">>,
      <<"f", "a", "n", "t", "a", "s", "t", "i", "c">>, <<"g", "r", "e", "a", "t">>,
      <<"o", "u", "t", "s", "t", "a", "n", "d", "i", "n", "g">>,
      <<"w", "o", "n", "d", "e", "r", "f", "u", "l">>,
      <<"p", "e", "r", "f", "e", "c", "t">>, <<"b", "e", "s", "t">>,
      <<"l", "o", "v", "e">>, <<"i", "n", "c", "r", "e", "d", "i", "b", "l", "e">>>>

\* self.negative_keywords
negative_keywords ==
    <<<<"b", "a", "d">>, <<"t", "e", "r", "r", "i", "b", "l", "e">>,
      <<"a", "w", "f", "u", "l">>, <<"w", "o", "r", "s", "t">>, <<"h", "a", "t", "e">>,
      <<"d", "i", "s", "a", "p", "p", "o", "i", "n", "t", "i", "n", "g">>,
      <<"p", "o", "o", "r">>, <<"f", "a", "i", "l", "u", "r", "e">>,
      <<"u", "s", "e", "l", "e", "s", "s">>>>

\* self.action_words
action_words ==
    <<<<"b", "u", "y">>, <<"g", "e", "t">>, <<"d", "i", "s", "c", "o", "v", "e", "r">>,
      <<"l", "e", "a", "r", "n">>, <<"s", "t", "a", "r", "t">>, <<"j", "o", "i", "n">>,
      <<"s", "u", "b", "s", "c", "r", "i", "b", "e">>,
      <<"d", "o", "w", "n", "l", "o", "a", "d">>,
      <<"r", "e", "g", "i", "s", "t", "e", "r">>, <<"c", "l", "i", "c", "k">>,
      <<"s", "h", "o", "p">>>>

BaseScore == 50
ActionPoints == 10
ActionCap == 30
PositivePoints == 5
PositiveCap == 15
QuestionPoints == 5
NumberPoints == 5
MaxScore == 100
KeywordScoreInRange == 100
KeywordScoreOutOfRange == 50

ReportPhrases ==
    {<<"b", "u", "y", " ", "g", "e", "t", " ", "j", "o", "i", "n", " ", "s", "h", "o", "p">>,
     <<" ", "b", "e", "s", "t", " ", "l", "o", "v", "e", " ", "g", "r", "e", "A", "t", " ", "p", "e", "r", "f", "e", "c", "t">>,
     <<" ", "b", "a", "d">>,
     <<"?">>,
     <<"1", "?">>,
     <<" ", "l", "e", "A", "r", "n">>,
     <<" ", "a", "i", ".">>}
ReportTexts == {Concat(parts) : parts \in SeqsUpTo(ReportPhrases, MaxPhrases)}

ReportPaddings == {NoPadding, [count |-> 36, stop |-> FALSE]}

ReportKeywordLists ==
    {None, Some(<< <<"a", "i">> >>), Some(<< <<"A", "i">>, <<"s", "e", "o">> >>)}

\* sub in str
contains(str, sub) ==
    \E i \in 1..(Len(str) - Len(sub) + 1) :
        str[i] = sub[1] /\ SubSeq(str, i, i + Len(sub) - 1) = sub

\* sum(1 for word in words if word in content_lower)
words_in(words, content_lower) ==
    Cardinality({i \in DOMAIN words : contains(content_lower, words[i])})

\* (mutant) every negative word takes five points off
engagement_score_with_negatives(action_word_count, positive_count, negative_count, question_count, has_numbers) ==
    100 * Min(BaseScore + Min(action_word_count * ActionPoints, ActionCap)
                  + Min(positive_count * PositivePoints, PositiveCap)
                  + question_count * QuestionPoints
                  + (IF has_numbers THEN NumberPoints ELSE 0)
                  - negative_count * PositivePoints,
              MaxScore)

\* lines 85-92 and round(engagement_score, 2), in hundredths
engagement_score(action_word_count, positive_count, negative_count, question_count, has_numbers) ==
    100 * Min(BaseScore + Min(action_word_count * ActionPoints, ActionCap)
                  + Min(positive_count * PositivePoints, PositiveCap)
                  + question_count * QuestionPoints
                  + (IF has_numbers THEN NumberPoints ELSE 0),
              MaxScore)

\* lines 84-102: the dict returned for what was counted
engagement_result(action_word_count, positive_count, negative_count, has_questions, question_count, has_numbers) ==
    [engagement_score |-> engagement_score(action_word_count, positive_count,
                                           negative_count, question_count,
                                           has_numbers),
     action_words_count |-> action_word_count,
     positive_words_count |-> positive_count,
     negative_words_count |-> negative_count,
     has_questions |-> has_questions,
     question_count |-> question_count,
     has_numbers |-> has_numbers]

\* lines 70-82 for content_lower = content.lower()
engagement_of(str, content_lower) ==
    TheOnly({engagement_result(action_word_count, positive_count, negative_count,
                               \E i \in DOMAIN str : str[i] = "?", question_count,
                               has_numbers) :
                 action_word_count \in {words_in(action_words, content_lower)},
                 positive_count \in {words_in(positive_keywords, content_lower)},
                 negative_count \in {words_in(negative_keywords, content_lower)},
                 question_count \in {Cardinality({i \in DOMAIN str : str[i] = "?"})},
                 has_numbers \in {\E i \in DOMAIN str : str[i] \in Digits}})

\* ContentAnalytics.analyze_engagement_potential
analyze_engagement_potential(str) ==
    TheOnly({engagement_of(str, content_lower) : content_lower \in {lower(str)}})

\* analyze_readability(content) for the content text + fillers: a filler has no
\* vowel and counts one syllable
content_readability(str, pad, up) ==
    TheOnly({readability(word_count, sentences, syllables, up) :
                 word_count \in {content_words(str, pad)},
                 sentences \in {content_sentences(str, pad)},
                 syllables \in {total_syllables(str, word_starts(str)) + pad.count}})

\* (mutant) the keyword part of the score does not look at the density
keyword_score_fixed(density) == KeywordScoreOutOfRange

\* 100 if 1 <= keyword_density <= 3 else 50, the density in hundredths
keyword_score(density) ==
    IF density >= 100 * LowDensity /\ density <= 100 * HighDensity
    THEN KeywordScoreInRange
    ELSE KeywordScoreOutOfRange

\* the weighted sum of line 208-212 in thousandths, the scores in hundredths
weighted_sum(reading_ease_score, engagement, density) ==
    3 * reading_ease_score + 4 * engagement + 3 * 100 * keyword_score(density)

\* round(overall_score, 2) in hundredths
overall_score(reading_ease_score, engagement, density, up) ==
    round2_float(weighted_sum(reading_ease_score, engagement, density), 1000, up)

\* lines 207-221 of generate_content_report: the report made of the four
\* analyses, without the time stamp analyzed_at
report(readability_part, engagement, keyword_analysis, recommendations, up_overall) ==
    [overall_score |-> overall_score(readability_part.reading_ease_score,
                                     engagement.engagement_score,
                                     keyword_analysis.keyword_density, up_overall),
     readability |-> readability_part,
     engagement |-> engagement,
     keyword_analysis |-> keyword_analysis,
     seo_recommendations |-> recommendations]

\* ContentAnalytics.generate_content_report
generate_content_report(str, pad, keywords, order, up, up_overall) ==
    report(content_readability(str, pad, up),
           analyze_engagement_potential(str),
           content_keyword_density(str, pad, keywords_or_empty(keywords)),
           generate_seo_recommendations(str, pad, keywords, order),
           up_overall)

ReportQuiet ==
    /\ UNCHANGED <<text, padding, hash_order>>
    /\ UNCHANGED <<cache_vars, key_vars, route_vars, thread_vars, limiter_vars,
                   campaign_vars, generator_vars>>

\* analytics.analyze_engagement_potential(content)
AnalyzeEngagementPotential ==
    /\ NotAnalysed
    /\ analysis' = [op |-> "analyze_engagement_potential", keywords |-> None,
                    result |-> analyze_engagement_potential(text)]
    /\ ReportQuiet

\* analytics.generate_content_report(content, keywords), keywords None when
\* left out: generate_content_report(text, padding, keywords, hash_order, up,
\* up_overall), each of its four analyses computed once
GenerateContentReport ==
    /\ NotAnalysed
    /\ \E engagement \in {analyze_engagement_potential(text)}, up \in BOOLEAN :
       \E readability_part \in {content_readability(text, padding, up)},
          keywords \in ReportKeywordLists :
       \E keyword_analysis \in {content_keyword_density(text, padding,
                                                        keywords_or_empty(keywords))},
          recommendations \in {generate_seo_recommendations(text, padding, keywords,
                                                            hash_order)},
          up_overall \in BOOLEAN :
           analysis' = [op |-> "generate_content_report", keywords |-> keywords,
                        result |-> report(readability_part, engagement,
                                          keyword_analysis, recommendations,
                                          up_overall)]
    /\ ReportQuiet

InitReport ==
    /\ text \in ReportTexts
    /\ InitEmpty
    /\ max_size = 0
    /\ req = NoRequest
    /\ keys = << >>
    /\ RouteIdle
    /\ ThreadsIdle
    /\ LimiterIdle
    /\ analysis = NoAnalysis
    /\ padding \in ReportPaddings
    /\ hash_order \in HashOrders
    /\ CampaignsIdle
    /\ GeneratorIdle

NextReport ==
    \/ AnalyzeEngagementPotential
    \/ GenerateContentReport

SpecReport == InitReport /\ [][NextReport]_vars

-----------------------------------------------------------------------------
(* The campaign routes of routes/content.py over campaigns_db and content_db.
   A campaign id is a uuid4 string: the n-th id given is the integer n, and no
   id is given twice.  A record of campaigns_db keeps its id, its name and its
   content_ids; the description, the audience and the creation time are copied
   from the request to the record and to the answer and decide nothing. *)

\* the campaigns created in one run
MaxCampaigns == 3

\* CampaignCreateRequest.name: min_length=3
MinNameLength == 3

\* the ids asked for: every id given so far or given later, and one never given
CampaignIds == 1 .. (MaxCampaigns + 1)

\* the bodies posted to /campaigns; the first name is too short
CampaignRequests ==
    [name : {<<"a", "b">>, <<"f", "a", "l", "l">>},
     content_ids : {<< >>, <<1>>, <<2, 3>>}]

\* content_db when the campaign requests arrive: records stored by POST /generate
StoredContents ==
    {SubSeq(<<[id |-> 1, req |-> NoRequest, content |-> 1],
              [id |-> 2, req |-> NoRequest, content |-> 2]>>, 1, n) : n \in 0 .. 2}

\* CampaignCreateRequest
valid_campaign(r) == Len(r.name) >= MinNameLength

\* campaign_id in campaigns_db
has_campaign(db, id) == \E i \in DOMAIN db : db[i].id = id

\* campaigns_db.get(campaign_id)
campaign_of(db, id) ==
    IF has_campaign(db, id) THEN Some(db[CHOOSE i \in DOMAIN db : db[i].id = id])
    ELSE None

\* (mutant) del removes the campaign created last
del_newest_campaign(db, id) == SubSeq(db, 1, Len(db) - 1)

\* del campaigns_db[campaign_id]
del_campaign(db, id) == SelectSeq(db, LAMBDA c : c.id # id)

\* the answer of a campaign route: CampaignNotFoundError is the 404
CampaignAnswer(op, status, id, body) ==
    [op |-> op, status |-> status, id |-> id, body |-> body]

\* content_analytics of get_campaign_analytics: the content ids of the campaign
\* that content_db holds, in the order of the campaign
content_analytics(content_ids, contents) ==
    SelectSeq(content_ids, LAMBDA cid : \E i \in DOMAIN contents : contents[i].id = cid)

\* POST /campaigns
CreateCampaign(r) ==
    /\ campaign_ids < MaxCampaigns
    /\ IF ~valid_campaign(r)
       THEN /\ camp_resp' = CampaignAnswer("create_campaign", 422, 0, << >>)
            /\ UNCHANGED <<campaigns_db, campaign_ids>>
       ELSE \E campaign_id \in {campaign_ids + 1} :
                /\ campaign_ids' = campaign_id
                /\ campaigns_db' =
                       Append(campaigns_db,
                              [id |-> campaign_id, name |-> r.name,
                               content_ids |-> r.content_ids])
                /\ camp_resp' = CampaignAnswer("create_campaign", 201, campaign_id,
                                               <<r.name, r.content_ids>>)
    /\ UNCHANGED <<cache_vars, key_vars, route_vars, thread_vars, limiter_vars,
                   analytics_vars, seo_vars, generator_vars>>

\* GET /campaigns
GetCampaigns ==
    /\ camp_resp' = CampaignAnswer("get_campaigns", 200, 0,
                                   [i \in DOMAIN campaigns_db |-> campaigns_db[i].id])
    /\ UNCHANGED <<campaigns_db, campaign_ids>>
    /\ UNCHANGED <<cache_vars, key_vars, route_vars, thread_vars, limiter_vars,
                   analytics_vars, seo_vars, generator_vars>>

\* GET /campaigns/{campaign_id}
GetCampaign(campaign_id) ==
    /\ \E campaign \in {campaign_of(campaigns_db, campaign_id)} :
           camp_resp' =
               IF campaign = None
               THEN CampaignAnswer("get_campaign", 404, campaign_id, << >>)
               ELSE CampaignAnswer("get_campaign", 200, campaign_id,
                                   <<campaign[1].name, campaign[1].content_ids>>)
    /\ UNCHANGED <<campaigns_db, campaign_ids>>
    /\ UNCHANGED <<cache_vars, key_vars, route_vars, thread_vars, limiter_vars,
                   analytics_vars, seo_vars, generator_vars>>

\* DELETE /campaigns/{campaign_id}
DeleteCampaign(campaign_id) ==
    /\ IF ~has_campaign(campaigns_db, campaign_id)
       THEN /\ camp_resp' = CampaignAnswer("delete_campaign", 404, campaign_id, << >>)
            /\ campaigns_db' = campaigns_db
       ELSE /\ campaigns_db' = del_campaign(campaigns_db, campaign_id)
            /\ camp_resp' = CampaignAnswer("delete_campaign", 200, campaign_id, << >>)
    /\ UNCHANGED campaign_ids
    /\ UNCHANGED <<cache_vars, key_vars, route_vars, thread_vars, limiter_vars,
                   analytics_vars, seo_vars, generator_vars>>

\* GET /campaigns/{campaign_id}/analytics
GetCampaignAnalytics(campaign_id) ==
    /\ \E campaign \in {campaign_of(campaigns_db, campaign_id)} :
           camp_resp' =
               IF campaign = None
               THEN CampaignAnswer("get_campaign_analytics", 404, campaign_id, << >>)
               ELSE CampaignAnswer("get_campaign_analytics", 200, campaign_id,
                                   <<campaign[1].name, Len(campaign[1].content_ids),
                                     content_analytics(campaign[1].content_ids,
                                                       content_db)>>)
    /\ UNCHANGED <<campaigns_db, campaign_ids>>
    /\ UNCHANGED <<cache_vars, key_vars, route_vars, thread_vars, limiter_vars,
                   analytics_vars, seo_vars, generator_vars>>

InitCampaigns ==
    /\ InitEmpty
    /\ max_size = 0
    /\ req = NoRequest
    /\ keys = << >>
    /\ content_db \in StoredContents
    /\ resp = NoResponse
    /\ ThreadsIdle
    /\ LimiterIdle
    /\ AnalyticsIdle
    /\ SeoIdle
    /\ CampaignsIdle
    /\ GeneratorIdle

NextCampaigns ==
    \/ \E r \in CampaignRequests : CreateCampaign(r)
    \/ GetCampaigns
    \/ \E campaign_id \in CampaignIds : GetCampaign(campaign_id)
    \/ \E campaign_id \in CampaignIds : DeleteCampaign(campaign_id)
    \/ \E campaign_id \in CampaignIds : GetCampaignAnalytics(campaign_id)

SpecCampaigns == InitCampaigns /\ [][NextCampaigns]_vars

-----------------------------------------------------------------------------
(* A SimpleCache that is full of entries set earlier, two of them under keys
   that the calls of the model use: set then overwrites a stored key of a full
   cache. *)

\* the dict of a full cache of max_size WarmSize: the second entry, one of the
\* oldest, is stored under key 1 and the last, one of the newest, under key 2
full_cache(dttl) ==
    [i \in 1..WarmSize |->
        [key |-> _generate_key(IF i = 2 THEN 1 ELSE IF i = WarmSize THEN 2
                                ELSE NumKeys + i),
         entry |-> CacheEntry(1, dttl, IF i = 1 \/ i = WarmSize THEN 1 ELSE 0)]]

InitFull ==
    /\ max_size = WarmSize
    /\ default_ttl \in DefaultTtls
    /\ cache = full_cache(default_ttl)
    /\ hit_count = 0
    /\ miss_count = 0
    /\ now = 1
    /\ last = NoCall("init")
    /\ ops_left = WarmOps

InitOverwrite ==
    /\ InitEmpty \/ InitFull
    /\ req = <<NoRequest, NoRequest>>
    /\ keys = <<None, None>>
    /\ RouteIdle
    /\ ThreadsIdle
    /\ LimiterIdle
    /\ AnalyticsIdle
    /\ RestIdle

SpecOverwrite == InitOverwrite /\ [][Next]_vars

-----------------------------------------------------------------------------
(* generate_ai_content of routes/content.py.  A string is the list of the
   pieces it was put together from, each with the number of its characters
   that are there: concatenation is \o, s[:n] keeps the first n characters.
   random.choice picks any of the five templates. *)

\* the characters that follow the prompt in each of sample_responses
TemplateChars == <<65, 59, 64, 62, 72>>

\* len(" Focus on: "), len(", ")
FocusChars == 11
JoinChars == 2
\* keywords[:3]
KeywordsShown == 3
\* base_content[:280]
TwitterChars == 280
\* len(" #marketing #content")
TwitterTagChars == 20
\* the characters the linkedin and the instagram branch append
LinkedinChars == 63
InstagramChars == 37

\* the lengths of the prompts (min_length=1, no maximum)
PromptChars == {1, 208, 215, 300}
\* ContentGenerateRequest.length: ge=1, le=5000
GeneratorLengths == {1, 250, 280, 281, 300, 5000}

\* the keyword lists: none, empty, and up to four keywords, each given by the
\* number of its characters
GeneratorKeywords ==
    {None, Some(<< >>), Some(<<2>>), Some(<<30, 2>>), Some(<<2, 30, 30, 2>>)}

\* the platforms asked for
GeneratorPlatforms ==
    {None, Some(""), Some("twitter"), Some("Twitter"), Some("TWITTER"),
     Some("linkedin"), Some("Instagram"), Some("facebook")}

\* str.lower on the platform names
platform_lower(platform) ==
    CASE platform \in {"twitter", "Twitter", "TWITTER"} -> "twitter"
      [] platform = "Instagram" -> "instagram"
      [] OTHER -> platform

\* a piece of a string
Piece(part, chars) == [text |-> part, chars |-> chars]

\* len(s)
RECURSIVE str_len(_)
str_len(s) == IF s = << >> THEN 0 ELSE Head(s).chars + str_len(Tail(s))

\* s[:n]
RECURSIVE str_prefix(_, _)
str_prefix(s, n) ==
    IF s = << >> \/ n <= 0 THEN << >>
    ELSE IF Head(s).chars >= n THEN <<Piece(Head(s).text, n)>>
    ELSE <<Head(s)>> \o str_prefix(Tail(s), n - Head(s).chars)

\* random.choice(sample_responses) when it picks the template
sample_response(prompt, template) ==
    <<Piece("prompt", prompt), Piece("template", TemplateChars[template])>>

\* ", ".join(keywords)
RECURSIVE join(_)
join(keywords) ==
    IF keywords = << >> THEN << >>
    ELSE IF Len(keywords) = 1 THEN <<Piece("keyword", Head(keywords))>>
    ELSE <<Piece("keyword", Head(keywords)), Piece(", ", JoinChars)>>
             \o join(Tail(keywords))

\* " Focus on: " + ", ".join(keywords[:3]), for keywords that are given
keyword_phrase(keywords) ==
    IF keywords_or_empty(keywords) = << >> THEN << >>
    ELSE <<Piece(" Focus on: ", FocusChars)>>
             \o join(SubSeq(keywords[1], 1, Min(Len(keywords[1]), KeywordsShown)))

\* the twitter branch, lines 153-154
twitter_format(base_content) ==
    str_prefix(base_content, TwitterChars)
        \o <<Piece(" #marketing #content", TwitterTagChars)>>

\* the platform-specific formatting, lines 150-158
platform_format(base_content, platform) ==
    IF platform = None \/ platform = Some("") THEN base_content
    ELSE CASE platform_lower(platform[1]) = "twitter" -> twitter_format(base_content)
           [] platform_lower(platform[1]) = "linkedin" ->
                  base_content \o <<Piece("linkedin", LinkedinChars)>>
           [] platform_lower(platform[1]) = "instagram" ->
                  base_content \o <<Piece("instagram", InstagramChars)>>
           [] OTHER -> base_content

\* generate_ai_content when random.choice picks the template (the tone is not used)
generate_ai_content(prompt, length, keywords, platform, template) ==
    str_prefix(platform_format(sample_response(prompt, template)
                                   \o keyword_phrase(keywords), platform),
               length)

\* generate_ai_content keeps nothing between two calls: one call is explored for
\* each request
NotGenerated == generated = NoGenerated

\* a call of generate_ai_content
GenerateAiContent(prompt, length, keywords, platform) ==
    /\ NotGenerated
    /\ \E template \in DOMAIN TemplateChars :
           generated' = [op |-> "generate_ai_content", prompt |-> prompt,
                         length |-> length, keywords |-> keywords,
                         platform |-> platform,
                         content |-> generate_ai_content(prompt, length, keywords,
                                                         platform, template)]
    /\ UNCHANGED <<cache_vars, key_vars, route_vars, thread_vars, limiter_vars,
                   analytics_vars, seo_vars, campaign_vars>>

InitGenerator ==
    /\ InitEmpty
    /\ max_size = 0
    /\ req = NoRequest
    /\ keys = << >>
    /\ RouteIdle
    /\ ThreadsIdle
    /\ LimiterIdle
    /\ AnalyticsIdle
    /\ RestIdle

NextGenerator ==
    \E prompt \in PromptChars, length \in GeneratorLengths,
       keywords \in GeneratorKeywords, platform \in GeneratorPlatforms :
        GenerateAiContent(prompt, length, keywords, platform)

SpecGenerator == InitGenerator /\ [][NextGenerator]_vars

-----------------------------------------------------------------------------
(* The claims about SimpleCache, checked under Spec. *)

\* the entries of d that are not expired at t, and their keys
LiveItems(d, t) == SelectSeq(d, LAMBDA it : ~(t > it.entry.expires_at))
LiveKeys(d, t) == DictKeys(LiveItems(d, t))

\* d without the item of the hashed key ck
Without(d, ck) == SelectSeq(d, LAMBDA it : it.key # ck)

\* C1 (as claimed): after every set, for whatever max_size the cache was constructed
\* with, the number of stored entries is at most max_size.
C1_SizeAtMostMaxSizeAfterSet ==
    last.op = "set" => Len(cache) <= max_size

\* C1, the part that holds: the bound is kept by every cache constructed with a
\* max_size of at least 1.
C1_SizeAtMostPositiveMaxSize ==
    max_size >= 1 => Len(cache) <= max_size

\* C2: a get(k) right after set(k, v, ttl) with ttl > 0, no time elapsed and nothing
\* in between, returns v and is a hit: the entry just stored is in the dict,
\* whatever the set purged or evicted.
C2_GetAfterSetReturnsValue ==
    [][(/\ last'.op = "set"
        /\ \E ttl \in TtlArgs :
               /\ ttl # None
               /\ ttl[1] > 0
               /\ Set(last'.key, last'.value, ttl))
           => /\ get_value(cache', now', last'.key) = Some(last'.value)
              /\ get_hits(cache', now', last'.key)
              /\ DictHas(cache', _generate_key(last'.key))]_vars

\* C2 witness: a set has just stored its entry in a cache that was full, so that
\* the set evicted, and a get of its key returns the value.
C2_Witness ==
    /\ last.op = "set"
    /\ last.evicted # {}
    /\ max_size >= 2
    /\ Len(cache) = max_size
    /\ get_value(cache, now, last.key) = Some(last.value)

\* C3: a get on a key whose stored entry has now > expires_at returns None, counts
\* a miss and no hit, and leaves no entry of the key in the dict.
C3_ExpiredEntryIsAMiss ==
    [][\A k \in RawKeys :
          (/\ last'.op = "get"
           /\ last'.key = k
           /\ DictHas(cache, _generate_key(k))
           /\ now > DictGet(cache, _generate_key(k)).expires_at)
              => /\ last'.ret = None
                 /\ miss_count' = miss_count + 1
                 /\ hit_count' = hit_count
                 /\ ~DictHas(cache', _generate_key(k))]_vars

\* C3 witness: a get has met the expired entry of its key and removed it.
C3_Witness ==
    /\ last.op = "get"
    /\ last.dropped = 1
    /\ last.ret = None
    /\ miss_count >= 1

\* C4: when a set finds at least max_size entries left after the purge, its eviction
\* removes exactly max(1, max_size div 10) of them (all when fewer exist), none of
\* them created later than an entry it keeps, and the dict then holds the kept
\* entries and the new one; a get leaves the creation time of every entry alone.
C4_EvictsTheOldest ==
    [][/\ (last'.op = "set" /\ Len(LiveItems(cache, now)) >= max_size)
            => LET live == LiveKeys(cache, now)
                   gone == last'.evicted
               IN  /\ gone \subseteq live
                   /\ Cardinality(gone) = Min(Max(1, max_size \div 10), Cardinality(live))
                   /\ \A r \in gone, q \in live \ gone :
                          DictGet(cache, r).created_at <= DictGet(cache, q).created_at
                   /\ DictKeys(cache') = (live \ gone) \cup {_generate_key(last'.key)}
       /\ last'.op = "get"
            => \A ck \in DictKeys(cache') :
                   /\ DictHas(cache, ck)
                   /\ DictGet(cache', ck).created_at = DictGet(cache, ck).created_at]_vars

\* C4 witness: a set has evicted two entries (max_size div 10 = 2) and kept others.
C4_Witness ==
    /\ last.op = "set"
    /\ Cardinality(last.evicted) = 2
    /\ max_size \div 10 = 2
    /\ Len(cache) = max_size - 1

\* C5 (as claimed): the entry stored by set(key, value, ttl) has expires_at =
\* created_at + ttl for every ttl >= 0 passed, and created_at + default_ttl when
\* none is passed.
C5_ExpiresAtIsCreatedPlusTtl ==
    [][\A k \in RawKeys, v \in Values, ttl \in TtlArgs :
          (last'.op = "set" /\ last'.key = k /\ last'.value = v /\ Set(k, v, ttl))
              => LET e == DictGet(cache', _generate_key(k))
                 IN  e.expires_at
                         = e.created_at + (IF ttl = None THEN default_ttl ELSE ttl[1])]_vars

\* C6: a get adds 1 to hit_count when the entry of its key is stored and not
\* expired and returns its value, else adds 1 to miss_count and returns None; it
\* removes the entry of its key when that is expired and changes nothing else.
C6_GetChangesOnlyCountersAndItsExpiredEntry ==
    [][\A k \in RawKeys :
          (last'.op = "get" /\ last'.key = k)
              => LET ck == _generate_key(k)
                     stored == DictHas(cache, ck)
                     expired == stored /\ now > DictGet(cache, ck).expires_at
                     hit == stored /\ ~expired
                 IN  /\ hit => /\ hit_count' = hit_count + 1
                               /\ miss_count' = miss_count
                               /\ last'.ret = Some(DictGet(cache, ck).value)
                     /\ ~hit => /\ miss_count' = miss_count + 1
                                /\ hit_count' = hit_count
                                /\ last'.ret = None
                     /\ cache' = IF expired THEN Without(cache, ck) ELSE cache
                     /\ UNCHANGED <<max_size, default_ttl, now>>]_vars

\* C6 witness: a get has removed the expired entry of its key while another entry,
\* expired as well, stays stored.
C6_Witness ==
    /\ last.op = "get"
    /\ last.dropped = 1
    /\ \E i \in DOMAIN cache : now > cache[i].entry.expires_at

\* C7: delete returns true iff an entry of the key was stored, expired or not;
\* afterwards none is, and the other entries and both counters are unchanged.
C7_DeleteRemovesOnlyItsKey ==
    [][\A k \in RawKeys :
          (last'.op = "delete" /\ last'.key = k)
              => /\ last'.ret = Some(DictHas(cache, _generate_key(k)))
                 /\ ~DictHas(cache', _generate_key(k))
                 /\ cache' = Without(cache, _generate_key(k))
                 /\ UNCHANGED <<hit_count, miss_count>>]_vars

\* C7 witness: a delete has returned true and left other entries and counted
\* requests behind.
C7_Witness ==
    /\ last.op = "delete"
    /\ last.ret = Some(TRUE)
    /\ Len(cache) >= 1
    /\ hit_count + miss_count >= 1

\* C8 (as claimed): get_stats reports hit_rate_percent = hit_count / total_requests
\* * 100 exactly (in hundredths: rate * total = hit_count * 10000), 0 without
\* requests, with size the number of entries left and total_requests the sum.
C8_HitRateIsExactQuotient ==
    last.op = "get_stats"
        => /\ last.stats.size = Len(cache)
           /\ last.stats.total_requests = hit_count + miss_count
           /\ last.stats.hit_rate_percent * last.stats.total_requests
                  = hit_count * 10000

\* C8 (amended): get_stats removes exactly the expired entries, reports the number
\* of entries left, total_requests = hit_count + miss_count, and hit_rate_percent =
\* 0 without requests, else hit_count / total_requests * 100 rounded to two
\* decimals (the hundredth nearest to it); the counters stay as they are.
C8_StatsAfterPurgeRounded ==
    [][last'.op = "get_stats"
          => LET st == last'.stats
                 total == hit_count + miss_count
             IN  /\ cache' = LiveItems(cache, now)
                 /\ st.size = Len(cache')
                 /\ st.max_size = max_size
                 /\ st.hit_count = hit_count
                 /\ st.miss_count = miss_count
                 /\ st.total_requests = total
                 /\ total = 0 => st.hit_rate_percent = 0
                 /\ total > 0 =>
                        /\ 2 * (st.hit_rate_percent * total - hit_count * 10000) <= total
                        /\ 2 * (hit_count * 10000 - st.hit_rate_percent * total) <= total
                 /\ UNCHANGED <<hit_count, miss_count>>]_vars

\* C8 witness: get_stats has purged an expired entry, kept another, and reported a
\* rate that is no exact number of hundredths (1 hit in 3 requests: 33.33).
C8_Witness ==
    /\ last.op = "get_stats"
    /\ last.dropped >= 1
    /\ last.stats.size >= 1
    /\ last.stats.total_requests = 3
    /\ last.stats.hit_rate_percent = 3333

\* C9: after clear the dict is empty and both counters are 0, so that a get_stats
\* called now reports size 0 and total_requests 0 and a get of any key is a miss.
C9_ClearResetsEverything ==
    last.op = "clear"
        => /\ Len(cache) = 0
           /\ hit_count = 0
           /\ miss_count = 0
           /\ LET st == stats_value(_cleanup_expired(cache, now), max_size,
                                    hit_count, miss_count)
              IN  st.size = 0 /\ st.total_requests = 0
           /\ \A k \in RawKeys :
                  get_value(cache, now, k) = None /\ ~get_hits(cache, now, k)

\* C9 witness: a clear has dropped entries.
C9_Witness ==
    /\ last.op = "clear"
    /\ last.dropped >= 2

-----------------------------------------------------------------------------
(* The claims about generate_content_key, checked under SpecKey. *)

BothKeys == keys[1] # None /\ keys[2] # None

KeywordList(r) == keywords_or_empty(r.keywords)
KeywordSet(r) == {KeywordList(r)[i] : i \in DOMAIN KeywordList(r)}
\* how often each keyword occurs in the list
KeywordCount(r) ==
    [kw \in 1..NumKeywords |->
        Cardinality({i \in DOMAIN KeywordList(r) : KeywordList(r)[i] = kw})]

\* C10 (as claimed): two requests with the same prompt, tone and length and the same
\* set of keywords get the same key, whatever the order of the keywords and
\* whatever the platforms.
C10_SameKeyWhateverPlatform ==
    (/\ BothKeys
     /\ req[1].prompt = req[2].prompt
     /\ req[1].tone = req[2].tone
     /\ req[1].length = req[2].length
     /\ KeywordSet(req[1]) = KeywordSet(req[2]))
        => keys[1] = keys[2]

\* C10 (amended): two requests with the same prompt, tone, length and platform whose
\* keyword lists hold the same keywords the same number of times (a missing list
\* counting as empty) get the same key, whatever the order of the keywords.
C10_SameKeyForReorderedKeywords ==
    (/\ BothKeys
     /\ req[1].prompt = req[2].prompt
     /\ req[1].tone = req[2].tone
     /\ req[1].length = req[2].length
     /\ req[1].platform = req[2].platform
     /\ KeywordCount(req[1]) = KeywordCount(req[2]))
        => keys[1] = keys[2]

\* C10 witness: the keys of two requests that differ in the order of their keywords
\* only have been computed, and are equal.
C10_Witness ==
    /\ BothKeys
    /\ KeywordList(req[1]) # KeywordList(req[2])
    /\ KeywordCount(req[1]) = KeywordCount(req[2])
    /\ req[1].platform = req[2].platform
    /\ req[1].platform # None
    /\ keys[1] = keys[2]

-----------------------------------------------------------------------------
(* The claims about ContentCache and POST /generate, checked under SpecContent. *)

\* r and r0 differ at most in the order of their keywords
SameUpToKeywordOrder(r, r0) ==
    /\ r.prompt = r0.prompt
    /\ r.tone = r0.tone
    /\ r.length = r0.length
    /\ r.platform = r0.platform
    /\ Len(KeywordList(r)) = Len(KeywordList(r0))
    /\ KeywordCount(r) = KeywordCount(r0)

\* the request whose answer the item of the cache holds
StoredBy(it) == content_db[it.entry.value.id].req

\* C11: a request that differs from the one an entry was cached for in the order of
\* its keywords only has the same key, and while the entry is not expired
\* get_content called with it returns the cached content.
C11_AnyKeywordOrderGetsTheCachedContent ==
    \A i \in DOMAIN cache : \A r \in ContentRequests :
        SameUpToKeywordOrder(r, StoredBy(cache[i]))
            => /\ key_of(r) = key_of(StoredBy(cache[i]))
               /\ cache[i].key = _generate_key(key_of(r))
               /\ ~is_expired(cache[i].entry, now)
                      => get_content(cache, now, r) = Some(cache[i].entry.value)

\* C11 witness: a request has been answered from the cache with content that was
\* cached for the same keywords in another order.
C11_Witness ==
    /\ resp.status = 201
    /\ resp.from_cache
    /\ KeywordList(resp.req) # KeywordList(content_db[resp.id].req)
    /\ SameUpToKeywordOrder(resp.req, content_db[resp.id].req)
    /\ resp.content = content_db[resp.id].content

\* the cache holds an entry for the parameters of r that is not expired now
CachedFor(r) ==
    \E i \in DOMAIN cache :
        /\ cache[i].key = _generate_key(key_of(r))
        /\ ~(now > cache[i].entry.expires_at)

\* the ids of the records of a content_db
Ids(db) == {db[i].id : i \in DOMAIN db}

C17_NonPositiveLengthIsRejected ==
    [][\A r \in ContentRequests, content \in Contents :
          (resp'.req = r /\ r.length <= 0 /\ Generate(r, content))
              => /\ resp'.status >= 400
                 /\ resp'.status < 500
                 /\ UNCHANGED <<content_db, cache, hit_count, miss_count>>]_vars

\* C17 witness: a request of length 0 or less has been rejected while the cache
\* and content_db held the result of an earlier request.
C17_Witness ==
    /\ resp.status = 422
    /\ resp.req.length <= 0
    /\ Len(content_db) = 1
    /\ Len(cache) = 1

-----------------------------------------------------------------------------
(* The claim about callers without a lock, checked under SpecThreads. *)

AllIdle == \A t \in Threads : thr[t].pc = "idle"

\* C12 (as claimed, the sequential part): as long as no caller has taken a step
\* while the other was inside a call, no call has failed with KeyError and the
\* dict holds at most max_size entries.
C12_SequentialCallsAreSafe ==
    ~hist.overlapped => (~hist.failed /\ Len(cache) <= max_size)

\* C12, the sequential part that holds: for a max_size of at least 1 strictly
\* sequential calls neither fail nor leave more than max_size entries.
C12_SequentialCallsAreSafeForPositiveMaxSize ==
    (~hist.overlapped /\ max_size >= 1) => (~hist.failed /\ Len(cache) <= max_size)

\* C12 witness (the interleaved part): with a max_size of 1 and calls that
\* overlapped, a call has failed on a key the other caller removed and, all calls
\* over, the dict holds more than max_size entries.
C12_Witness ==
    /\ hist.overlapped
    /\ hist.failed
    /\ max_size >= 1
    /\ AllIdle
    /\ Len(cache) > max_size

-----------------------------------------------------------------------------
(* The claims about the rate limiter, checked under SpecLimiter. *)

\* the number of requests of ip forwarded in the window seconds ending at t (later
\* than t - window, not later than t)
AdmittedIn(ip, t, window) ==
    Cardinality({i \in DOMAIN admitted[ip] :
                    admitted[ip][i] > t - window /\ admitted[ip][i] <= t})

\* C13: for every ip and every instant t so far, at most requests_per_minute of its
\* non-health requests were forwarded in the 60 seconds ending at t and at most
\* requests_per_hour in the hour ending at t.
C13_AdmittedWithinBothLimits ==
    \A ip \in IPs : \A t \in LimiterTimes :
        t <= now => /\ AdmittedIn(ip, t, MinuteSeconds) <= requests_per_minute
                    /\ AdmittedIn(ip, t, HourSeconds) <= requests_per_hour

\* C13 witness: an ip that has used up its hour is refused for the hourly limit
\* while its last minute is not full, and some earlier minute of it was full.
C13_Witness ==
    /\ lim_resp.status = 429
    /\ lim_resp.reason = "hour"
    /\ AdmittedIn(lim_resp.ip, now, HourSeconds) = requests_per_hour
    /\ AdmittedIn(lim_resp.ip, now, MinuteSeconds) < requests_per_minute
    /\ \E t \in LimiterTimes :
           t < now /\ AdmittedIn(lim_resp.ip, t, MinuteSeconds) = requests_per_minute

\* the path of the model that is not /health
ApiPath == "/api/v1/content/generate"

\* what is_rate_limited reports for a request of ip arriving now
LimitedNow(ip) ==
    is_rate_limited(_cleanup_old_entries(request_history, now, last_cleanup)[ip], now,
                    requests_per_minute, requests_per_hour)

\* s is what is left of full after some of its first elements were dropped
IsSuffix(s, full) ==
    /\ Len(s) <= Len(full)
    /\ s = SubSeq(full, Len(full) - Len(s) + 1, Len(full))

\* C14: a request for which is_rate_limited reports a limit is answered 429, is not
\* forwarded and is not recorded: no list of request_history gains a timestamp;
\* and a history never holds anything but forwarded requests, so that a rejected
\* request counts in no later decision.
C14_RejectedRequestIsNotRecorded ==
    [][/\ \A ip \in IPs :
             (LimitedNow(ip) # "" /\ Request(ip, ApiPath))
                 => /\ lim_resp'.status = 429
                    /\ ~lim_resp'.forwarded
                    /\ admitted' = admitted
                    /\ \A other \in IPs :
                           IsSuffix(request_history'[other], request_history[other])
       /\ \A ip \in IPs : IsSuffix(request_history'[ip], admitted'[ip])]_vars

\* C14 witness: a request has been refused for the per-minute limit and the
\* history of its ip still holds requests_per_minute timestamps of the last minute.
C14_Witness ==
    /\ lim_resp.status = 429
    /\ lim_resp.reason = "minute"
    /\ ~lim_resp.forwarded
    /\ Len(later_than(request_history[lim_resp.ip], now, MinuteSeconds))
           = requests_per_minute

\* C15: a request to /health is forwarded and answered 200 whatever the history of
\* its ip, and leaves request_history, last_cleanup and the forwarded non-health
\* requests as they were.
C15_HealthIsNeverLimitedNorRecorded ==
    [][\A ip \in IPs :
          Request(ip, "/health")
              => /\ lim_resp'.status = 200
                 /\ lim_resp'.forwarded
                 /\ UNCHANGED <<request_history, last_cleanup, admitted>>]_vars

\* C15 witness: /health has been answered for an ip that is over a limit.
C15_Witness ==
    /\ lim_resp.path = "/health"
    /\ lim_resp.status = 200
    /\ lim_resp.forwarded
    /\ LimitedNow(lim_resp.ip) # ""

-----------------------------------------------------------------------------
(* The claims about ContentAnalytics, checked under SpecAnalytics and SpecReport. *)

\* the readability part of the last analysis, for the two calls that compute one
HasReadability == analysis.op \in {"analyze_readability", "generate_content_report"}

Readability ==
    IF analysis.op = "analyze_readability" THEN analysis.result
    ELSE analysis.result.readability

\* C18: for empty content analyze_readability reports a word count of zero and
\* a sentence count of zero
C18_EmptyContentCountsAreZero ==
    (analysis.op = "analyze_readability" /\ text = << >>)
        => (analysis.result.total_words = 0 /\ analysis.result.total_sentences = 0)

\* analyze_readability("") has returned: no word, and one sentence reported
C18_Witness ==
    /\ analysis.op = "analyze_readability"
    /\ text = << >>
    /\ analysis.result.total_words = 0
    /\ analysis.result.total_sentences = 1

\* C19: for every content string, the empty one and those without a sentence
\* terminator included, analyze_readability returns a reading_ease_score in
\* [0, 100] (0..10000 hundredths)
C19_ReadingEaseIsWithinBounds ==
    HasReadability
        => (Readability.reading_ease_score >= 0
            /\ Readability.reading_ease_score <= 100 * 100)

\* a text without a sentence terminator whose words have so many syllables that
\* the score before the clamp is negative: the score returned is 0
C19_Witness ==
    /\ analysis.op = "analyze_readability"
    /\ text # << >>
    /\ \A i \in DOMAIN text : ~is_terminator(text[i])
    /\ analysis.result.total_words = 1
    /\ analysis.result.reading_ease_score = 0

\* the fields of the keyword_analysis the spec lists
KeywordAnalysisFields ==
    {"keyword_density", "keywords_found", "keyword_frequency",
     "total_keyword_occurrences"}

\* C20: the keyword_analysis of every report has the four fields, and for an
\* empty or missing keyword list the density is 0 and found and frequency are
\* empty
C20_KeywordAnalysisHasFourFields ==
    analysis.op = "generate_content_report"
        => /\ DOMAIN analysis.result.keyword_analysis = KeywordAnalysisFields
           /\ keywords_or_empty(analysis.keywords) = << >>
                  => /\ analysis.result.keyword_analysis.keyword_density = 0
                     /\ analysis.result.keyword_analysis.keywords_found = << >>
                     /\ analysis.result.keyword_analysis.keyword_frequency = << >>

\* a report made without keywords: its keyword_analysis has the density, the
\* found list and the frequency map, and no total_keyword_occurrences
C20_Witness ==
    /\ analysis.op = "generate_content_report"
    /\ analysis.keywords = None
    /\ text # << >>
    /\ DOMAIN analysis.result.keyword_analysis
           = KeywordAnalysisFields \ {"total_keyword_occurrences"}
    /\ analysis.result.keyword_analysis.keyword_density = 0

-----------------------------------------------------------------------------
(* The claims about generate_seo_recommendations, checked under SpecSeo. *)

IsSeoCall == analysis.op = "generate_seo_recommendations"

\* the kinds of the recommendations returned, in their order
Kinds == [i \in DOMAIN analysis.result |-> analysis.result[i].kind]
HasKind(kind) == \E i \in DOMAIN analysis.result : analysis.result[i].kind = kind

\* the keyword density of the content analysed, 0 without keywords, in hundredths
DensityNow ==
    content_keyword_density(text, padding,
                            keywords_or_empty(analysis.keywords)).keyword_density

Rank(kind) ==
    CASE kind \in {"short", "long"} -> 1
      [] kind \in {"density_low", "density_high"} -> 2
      [] kind = "missing" -> 3
      [] kind = "questions" -> 4
      [] kind = "numbers" -> 5
      [] kind = "sentences" -> 6
      [] kind = "looks_good" -> 7

\* some check of the content analysed triggers
SomeCheckTriggers ==
    LET kws == keywords_or_empty(analysis.keywords)
        found == content_keyword_density(text, padding, kws).keywords_found
    IN  \/ content_words(text, padding) < ShortWords
        \/ content_words(text, padding) > LongWords
        \/ /\ kws # << >>
           /\ \/ DensityNow < 100 * LowDensity
              \/ DensityNow > 100 * HighDensity
              \/ \E i \in DOMAIN kws : \A j \in DOMAIN found : found[j] # kws[i]
        \/ \A i \in DOMAIN text : text[i] # "?"
        \/ \A i \in DOMAIN text : text[i] \notin Digits
        \/ avg_words_per_sentence(text, padding) > 100 * LongSentence

\* C22: the list is never empty; the 'looks good' message is in it iff no check
\* triggered, and then it is the only element; the other messages come in the
\* order length, density, missing keywords, questions, numbers, sentence length
C22_NeverEmptyAndInFixedOrder ==
    IsSeoCall
        => /\ analysis.result # << >>
           /\ HasKind("looks_good") <=> ~SomeCheckTriggers
           /\ HasKind("looks_good") => Len(analysis.result) = 1
           /\ \A i, j \in DOMAIN analysis.result :
                  i < j => Rank(Kinds[i]) < Rank(Kinds[j])

\* between 300 and 2000 words in short sentences, with a question mark and a
\* digit, a keyword of density between 1 and 3 or none: only 'looks good'
C22_Witness ==
    /\ IsSeoCall
    /\ Kinds = <<"looks_good">>
    /\ content_words(text, padding) >= ShortWords

\* C23: two calls with the same content and the same keyword list return
\* identical lists
C23_SameInputSameRecommendations ==
    [][(/\ IsSeoCall
        /\ analysis'.op = "generate_seo_recommendations"
        /\ analysis'.keywords = analysis.keywords)
           => analysis'.result = analysis.result]_vars

\* four keywords are missing and the message names three of them, the first
\* three in the order in which this process iterates the set
C23_Witness ==
    /\ IsSeoCall
    /\ Len(keywords_or_empty(analysis.keywords)) > MissingShown
    /\ \E i \in DOMAIN analysis.result :
           /\ analysis.result[i].kind = "missing"
           /\ Len(analysis.result[i].keywords) = MissingShown
           /\ analysis.result[i].keywords
                  = SubSeq(SelectSeq(hash_order,
                                     LAMBDA k : \E n \in DOMAIN analysis.keywords[1] :
                                                    analysis.keywords[1][n] = k),
                           1, MissingShown)

-----------------------------------------------------------------------------
(* The claims about the engagement score and the report, checked under
   SpecReport. *)

HasEngagement ==
    analysis.op \in {"analyze_engagement_potential", "generate_content_report"}

Engagement ==
    IF analysis.op = "analyze_engagement_potential" THEN analysis.result
    ELSE analysis.result.engagement

\* the words of a list that are in the content, upper and lower case alike
WordsFound(words) ==
    {i \in DOMAIN words :
        \E n \in DOMAIN text :
            /\ n + Len(words[i]) - 1 <= Len(text)
            /\ \A k \in DOMAIN words[i] : lower_char(text[n + k - 1]) = words[i][k]}

QuestionMarks == Cardinality({i \in DOMAIN text : text[i] = "?"})

\* C24: engagement_score = min(100, 50 + min(10 * A, 30) + min(5 * P, 15)
\* + 5 * Q + (5 if the content has a digit else 0)) for the reported counts A of
\* action words and P of positive words and the number Q of question marks;
\* the negative words do not count, and the score is in [50, 100]
C24_EngagementScoreFormula ==
    HasEngagement
        => /\ Engagement.action_words_count = Cardinality(WordsFound(action_words))
           /\ Engagement.positive_words_count
                  = Cardinality(WordsFound(positive_keywords))
           /\ Engagement.engagement_score
                  = 100 * Min(100,
                              50 + Min(10 * Engagement.action_words_count, 30)
                                 + Min(5 * Engagement.positive_words_count, 15)
                                 + 5 * QuestionMarks
                                 + (IF \E i \in DOMAIN text : text[i] \in Digits
                                    THEN 5 ELSE 0))
           /\ Engagement.engagement_score >= 100 * 50
           /\ Engagement.engagement_score <= 100 * 100

\* four action words, four positive words, a question mark and a digit: each
\* cap applies, and the score is 100 where the sum is 105
C24_Witness ==
    /\ analysis.op = "analyze_engagement_potential"
    /\ analysis.result.action_words_count > 3
    /\ analysis.result.positive_words_count > 3
    /\ analysis.result.question_count = 1
    /\ analysis.result.has_numbers
    /\ analysis.result.engagement_score = 100 * 100

IsReport == analysis.op = "generate_content_report"

\* 0.3 * reading_ease_score + 0.4 * engagement_score + 0.3 * K in thousandths,
\* of the values in the report
WeightedSumOfReport ==
    3 * analysis.result.readability.reading_ease_score
        + 4 * analysis.result.engagement.engagement_score
        + 3 * 100 * (IF /\ analysis.result.keyword_analysis.keyword_density >= 100
                        /\ analysis.result.keyword_analysis.keyword_density <= 300
                     THEN 100 ELSE 50)

\* C25 as stated: overall_score equals 0.3 * reading_ease_score
\* + 0.4 * engagement_score + 0.3 * K
C25_OverallScoreIsTheWeightedSum ==
    IsReport => 10 * analysis.result.overall_score = WeightedSumOfReport

\* C25 (amended): overall_score is 0.3 * reading_ease_score
\* + 0.4 * engagement_score + 0.3 * K rounded to two decimals, with K = 100 when
\* 1 <= keyword_density <= 3 and K = 50 otherwise, for the values in the report
C25_OverallScoreIsTheRoundedWeightedSum ==
    IsReport
        => /\ 10 * analysis.result.overall_score - WeightedSumOfReport <= 5
           /\ WeightedSumOfReport - 10 * analysis.result.overall_score <= 5
           /\ keywords_or_empty(analysis.keywords) = << >>
                  => analysis.result.keyword_analysis.keyword_density = 0

\* a report with a keyword density between 1 and 3, whose weighted sum has a
\* third decimal that the overall score does not have
C25_Witness ==
    /\ IsReport
    /\ analysis.result.keyword_analysis.keyword_density >= 100
    /\ analysis.result.keyword_analysis.keyword_density <= 300
    /\ WeightedSumOfReport % 10 # 0
    /\ 10 * analysis.result.overall_score # WeightedSumOfReport

-----------------------------------------------------------------------------
(* The claims about the campaign routes, checked under SpecCampaigns. *)

CampaignKeys(db) == {db[i].id : i \in DOMAIN db}

\* the ids of the campaigns deleted so far: given by uuid4 and no longer stored
DeletedCampaigns == (1 .. campaign_ids) \ CampaignKeys(campaigns_db)

\* the records of the campaigns other than id, in their order
OtherCampaigns(db, id) == SelectSeq(db, LAMBDA c : c.id # id)

\* C26: delete_campaign on an id that is not in campaigns_db raises not-found
\* (404) and leaves campaigns_db unchanged; a successful delete_campaign(id)
\* removes that campaign and no other; on a deleted id get_campaign,
\* get_campaign_analytics and delete_campaign raise not-found, and a deleted id
\* stays deleted; none of these changes content_db
C26_DeletedCampaignsAreNotFound ==
    [][/\ DeletedCampaigns \subseteq DeletedCampaigns'
       /\ camp_resp'.op \in {"get_campaign", "get_campaign_analytics", "delete_campaign"}
              => /\ content_db' = content_db
                 /\ OtherCampaigns(campaigns_db', camp_resp'.id)
                        = OtherCampaigns(campaigns_db, camp_resp'.id)
                 /\ camp_resp'.id \notin CampaignKeys(campaigns_db)
                        => /\ camp_resp'.status = 404
                           /\ campaigns_db' = campaigns_db
                 /\ camp_resp'.id \in CampaignKeys(campaigns_db)
                        => /\ camp_resp'.status = 200
                           /\ camp_resp'.op = "delete_campaign"
                                  => /\ camp_resp'.id \in DeletedCampaigns'
                                     /\ Len(campaigns_db') = Len(campaigns_db) - 1
                           /\ camp_resp'.op # "delete_campaign"
                                  => campaigns_db' = campaigns_db]_vars

\* the analytics of a deleted campaign are asked for and not found, while another
\* campaign whose contents are in content_db is still stored
C26_Witness ==
    /\ camp_resp.op = "get_campaign_analytics"
    /\ camp_resp.status = 404
    /\ camp_resp.id \in DeletedCampaigns
    /\ \E i \in DOMAIN campaigns_db :
           /\ campaigns_db[i].id > camp_resp.id
           /\ campaigns_db[i].content_ids # << >>
    /\ content_db # << >>

-----------------------------------------------------------------------------
(* The claim about the stored value of a cache hit, checked under SpecContent. *)

\* the record content_db holds under the id of a cached value
RecordOf(value) == content_db[value.id]

\* C27: serving a cache hit never changes what the cache stores: the value
\* stored for a key is the response_data that cache_content stored, after any
\* number of hits
C27_CacheHitLeavesTheStoredValue ==
    \A i \in DOMAIN cache :
        cache[i].entry.value
            = response_data(cache[i].entry.value.id, RecordOf(cache[i].entry.value).content)

\* a request has been answered from the cache, and the value stored for its key
\* now says from_cache
C27_Witness ==
    /\ resp.status = 201
    /\ resp.from_cache
    /\ \E i \in DOMAIN cache :
           /\ cache[i].key = _generate_key(key_of(resp.req))
           /\ cache[i].entry.value.id = resp.id
           /\ cache[i].entry.value.from_cache
           /\ ~response_data(resp.id, resp.content).from_cache

-----------------------------------------------------------------------------
(* The claim about waiting out the per-minute limit, checked under
   SpecLimiter. *)

\* the seconds the 429 tells the client to wait
RetryAfterSeconds == 60

\* the last response answers a non-health request of an ip that was told 429 for
\* the per-minute limit just before and has sent nothing for the advertised time
WaitedAfterMinuteLimit ==
    /\ lim_resp.path = ApiPath
    /\ lim_resp.rejected_at # None
    /\ lim_resp.at >= lim_resp.rejected_at[1] + RetryAfterSeconds

\* C28: the next non-health request of an ip that was answered 429 for the
\* per-minute limit and then sent nothing for 60 seconds is not rejected for the
\* per-minute limit, and is forwarded unless the ip is at its hourly limit; more
\* generally an ip with no forwarded request in the last 60 seconds is not over
\* the per-minute limit
C28_AdmittedAgainAfterRetryAfter ==
    /\ WaitedAfterMinuteLimit
           => /\ lim_resp.reason # "minute"
              /\ lim_resp.status = 429
                     => /\ lim_resp.reason = "hour"
                        /\ AdmittedIn(lim_resp.ip, lim_resp.at, HourSeconds)
                               >= requests_per_hour
              /\ lim_resp.status # 429
                     => /\ lim_resp.status = 200
                        /\ lim_resp.forwarded
                        /\ admitted[lim_resp.ip][Len(admitted[lim_resp.ip])] = lim_resp.at
    /\ \A ip \in IPs :
           AdmittedIn(ip, now, MinuteSeconds) = 0 => LimitedNow(ip) # "minute"

\* an ip whose minute was full has been told 429, has waited exactly 60 seconds
\* and is forwarded again
C28_Witness ==
    /\ WaitedAfterMinuteLimit
    /\ lim_resp.at = lim_resp.rejected_at[1] + RetryAfterSeconds
    /\ AdmittedIn(lim_resp.ip, lim_resp.rejected_at[1], MinuteSeconds)
           = requests_per_minute
    /\ lim_resp.status = 200
    /\ lim_resp.forwarded

-----------------------------------------------------------------------------
(* The claim about a set that overwrites a key of a full cache, checked under
   SpecOverwrite. *)

\* the step is a set of a key that is stored, while the cache holds max_size
\* entries, none of them expired
OverwritesInFullCache ==
    /\ last'.op = "set"
    /\ DictHas(cache, _generate_key(last'.key))
    /\ Len(cache) = max_size
    /\ LiveItems(cache, now) = cache

\* the keys other than the one set that the step removes from the dict
OtherKeysRemoved ==
    (DictKeys(cache) \ DictKeys(cache')) \ {_generate_key(last'.key)}

\* C29 as stated: a set that overwrites a stored key while the cache holds
\* max_size unexpired entries evicts the oldest max(1, max_size div 10) entries,
\* so that unexpired entries of other keys are removed
C29_OverwriteRemovesOtherKeys ==
    [][OverwritesInFullCache
          => /\ Cardinality(last'.evicted) = Max(1, max_size \div 10)
             /\ OtherKeysRemoved # {}]_vars

\* C29 (amended): a set that overwrites a stored key while the cache holds
\* max_size unexpired entries evicts the oldest max(1, max_size div 10) entries,
\* whether or not the key is stored; the unexpired entries of other keys among
\* them are removed, which is every evicted entry but the one of the key set
\* itself, stored anew when it is among the oldest
C29_OverwriteEvictsByCountAlone ==
    [][OverwritesInFullCache
          => LET ck == _generate_key(last'.key)
                 gone == last'.evicted
             IN  /\ gone \subseteq DictKeys(cache)
                 /\ Cardinality(gone) = Max(1, max_size \div 10)
                 /\ \A r \in gone, q \in DictKeys(cache) \ gone :
                        DictGet(cache, r).created_at <= DictGet(cache, q).created_at
                 /\ OtherKeysRemoved = gone \ {ck}
                 /\ DictKeys(cache') = (DictKeys(cache) \ gone) \cup {ck}
                 /\ Len(cache') = max_size - Cardinality(gone \ {ck})
                 /\ DictGet(cache', ck).created_at = now]_vars

\* a set of a stored key has evicted two entries of a full cache: the entry of
\* the key itself, stored anew, and the unexpired entry of another key
C29_Witness ==
    /\ last.op = "set"
    /\ Cardinality(last.evicted) = 2
    /\ last.dropped = 2
    /\ _generate_key(last.key) \in last.evicted
    /\ Len(cache) = max_size - 1
    /\ DictHas(cache, _generate_key(last.key))

-----------------------------------------------------------------------------
(* The claim about generate_ai_content, checked under SpecGenerator. *)

ForTwitter ==
    /\ generated.op = "generate_ai_content"
    /\ generated.platform \in {Some("twitter"), Some("Twitter"), Some("TWITTER")}

\* C30: for platform 'twitter', in upper or lower case, the content returned by
\* generate_ai_content has at most 280 characters, for every prompt, keyword
\* list and length in 1..5000
C30_TwitterContentWithinLimit ==
    ForTwitter => str_len(generated.content) <= 280

\* content for Twitter of 300 characters: the 280 the text was cut to and the 20
\* of the hashtags
C30_Witness ==
    /\ ForTwitter
    /\ generated.length >= 300
    /\ str_len(generated.content) = 300
    /\ generated.content[Len(generated.content)].text = " #marketing #content"

====
